---- MODULE Spec2Model ----
(***************************************************************************)
(* docflow: the retry loop of analyzeDocument                              *)
(* (src/src/services/document-processor.ts, lines 553-688).                *)
(*                                                                         *)
(* One behaviour of Spec is one call of analyzeDocument for one page.  The *)
(* remote analysis service is the environment: at every attempt it either  *)
(* resolves with an output or rejects with an error object.  Error objects *)
(* have the shape the Azure SDK gives them: an optional statusCode, an     *)
(* optional numeric retryAfterInMs, a response.headers object with a get   *)
(* method (the value of 'retry-after' is a string or absent) and a message.*)
(* Texts that the code parses (header value, message) are sequences of     *)
(* one-character strings, so that parseInt and the regular expression are  *)
(* computed as the code computes them.                                     *)
(***************************************************************************)
EXTENDS Integers, Sequences, FiniteSets, TLC

\* ------------------------------------------------------------------------
\* Program constants (document-processor.ts lines 353-355)
\* ------------------------------------------------------------------------
MAX_RETRIES == 3

INITIAL_DELAY_MS == 3000

MAX_DELAY_MS == 30000

\* Status code of a rate-limit failure (line 586)
TOO_MANY_REQUESTS == 429

\* ------------------------------------------------------------------------
\* Bounds of the model
\* ------------------------------------------------------------------------
\* retryAfterInMs takes the values -1500 and i * RetryAfterStepMs, i in 0..MaxRetryAfterSteps
MaxRetryAfterSteps == 2

\* ------------------------------------------------------------------------
\* Arithmetic helpers
\* ------------------------------------------------------------------------
Min(a, b) == IF a <= b THEN a ELSE b

Max(a, b) == IF a >= b THEN a ELSE b

\* ------------------------------------------------------------------------
\* Text helpers: a text is a sequence of one-character strings
\* ------------------------------------------------------------------------
DigitChars == <<"0", "1", "2", "3", "4", "5", "6", "7", "8", "9">>

IsDigit(c) == \E i \in 1..10 : DigitChars[i] = c

DigitVal(c) == (CHOOSE i \in 1..10 : DigitChars[i] = c) - 1

UpperChars == <<"A", "B", "C", "D", "E", "F", "G", "H", "I", "J", "K", "L", "M",
                "N", "O", "P", "Q", "R", "S", "T", "U", "V", "W", "X", "Y", "Z">>

LowerChars == <<"a", "b", "c", "d", "e", "f", "g", "h", "i", "j", "k", "l", "m",
                "n", "o", "p", "q", "r", "s", "t", "u", "v", "w", "x", "y", "z">>

\* the /i flag of the regular expression: compare letters without case
ToLower(c) ==
  IF \E i \in 1..26 : UpperChars[i] = c
  THEN LowerChars[CHOOSE i \in 1..26 : UpperChars[i] = c]
  ELSE c

\* length of the longest run of digits of s that starts at index i  (\d+)
RECURSIVE DigitRun(_, _)
DigitRun(s, i) ==
  IF i <= Len(s) /\ IsDigit(s[i]) THEN 1 + DigitRun(s, i + 1) ELSE 0

\* the number written by the n digits of s that start at index i
RECURSIVE DigitsValue(_, _, _)
DigitsValue(s, i, n) ==
  IF n = 0 THEN 0
  ELSE 10 * DigitsValue(s, i, n - 1) + DigitVal(s[i + n - 1])

\* index of the first character of s at or after i that is not a blank
RECURSIVE SkipBlanks(_, _)
SkipBlanks(s, i) ==
  IF i <= Len(s) /\ s[i] = " " THEN SkipBlanks(s, i + 1) ELSE i

NaN == [isNaN |-> TRUE, val |-> 0]

\* JavaScript parseInt(s, 10): leading blanks, an optional sign, then the
\* longest prefix of digits; NaN when there is no digit
ParseInt(s) ==
  LET i   == SkipBlanks(s, 1)
      neg == i <= Len(s) /\ s[i] = "-"
      pos == i <= Len(s) /\ s[i] = "+"
      j   == IF neg \/ pos THEN i + 1 ELSE i
      n   == DigitRun(s, j)
  IN  IF n = 0 THEN NaN
      ELSE [isNaN |-> FALSE,
            val   |-> (IF neg THEN -1 ELSE 1) * DigitsValue(s, j, n)]

\* p occurs in s at index i, letters compared without case
PrefixAt(s, i, p) ==
  /\ i + Len(p) - 1 <= Len(s)
  /\ \A k \in 1..Len(p) : ToLower(s[i + k - 1]) = p[k]

RetryAfterText == <<"r", "e", "t", "r", "y", " ", "a", "f", "t", "e", "r", " ">>

SecondsText == <<" ", "s", "e", "c", "o", "n", "d", "s">>

\* /retry after (\d+) seconds/i matches s at index i
MatchAt(s, i) ==
  /\ PrefixAt(s, i, RetryAfterText)
  /\ DigitRun(s, i + Len(RetryAfterText)) >= 1
  /\ PrefixAt(s, i + Len(RetryAfterText) + DigitRun(s, i + Len(RetryAfterText)),
              SecondsText)

\* error.message.match(/retry after (\d+) seconds/i): the captured group [1]
\* of the leftmost match, or the empty text when there is no match (null)
MessageMatch(s) ==
  IF \E i \in 1..Len(s) : MatchAt(s, i)
  THEN LET i == CHOOSE k \in 1..Len(s) :
                  MatchAt(s, k) /\ \A m \in 1..(k - 1) : ~MatchAt(s, m)
           j == i + Len(RetryAfterText)
       IN  SubSeq(s, j, j + DigitRun(s, j) - 1)
  ELSE << >>


\* ------------------------------------------------------------------------
\* The environment: what the remote analysis service can answer
\* ------------------------------------------------------------------------
\* absent statusCode (undefined never equals 429)
NoStatus == 0

StatusCodes == {NoStatus, TOO_MANY_REQUESTS, 500}

RetryAfterStepMs == 25000

\* values of error.retryAfterInMs when it is a number: negative, zero, below
\* and above MAX_DELAY_MS
RetryAfterInMsValues ==
  {-1500} \cup {i * RetryAfterStepMs : i \in 0..MaxRetryAfterSteps}

\* values of response.headers.get('retry-after'); the empty text stands for
\* an absent header (both are falsy at line 597)
HeaderValues ==
  { << >>,
    <<"2">>,
    <<"2", "0", "0", "0">>,
    <<"a", "b", "c">> }

\* "fail"
MSG_FAIL == <<"f", "a", "i", "l">>

\* "wait: Retry After 12 Seconds."
MSG_RETRY12 == <<"w", "a", "i", "t", ":", " ", "R", "e", "t", "r", "y", " ", "A", "f", "t", "e", "r", " ", "1", "2", " ", "S", "e", "c", "o", "n", "d", "s", ".">>

\* values of error.message; the empty text stands for an absent message
MessageValues ==
  { << >>,
    MSG_FAIL,
    MSG_RETRY12 }

\* the error objects the service can reject with
Errors ==
  [ statusCode        : StatusCodes,
    hasRetryAfterInMs : {TRUE},
    retryAfterInMs    : RetryAfterInMsValues,
    retryAfterHeader  : HeaderValues,
    message           : MessageValues ]
  \cup
  [ statusCode        : StatusCodes,
    hasRetryAfterInMs : {FALSE},
    retryAfterInMs    : {0},
    retryAfterHeader  : HeaderValues,
    message           : MessageValues ]

\* the outputs the service can resolve with: how many analysed documents and
\* how many tables the result carries
Outputs == [documents : 0..1, tables : 0..1]

DocumentTypes == {"invoice", "purchase-order"}

\* the value of a variable that has not been assigned (JavaScript undefined)
Undefined == [undefined |-> TRUE]

\* ------------------------------------------------------------------------
\* Delay selection in the catch handler (lines 580-624)
\* ------------------------------------------------------------------------
\* JavaScript truthiness of a text: the empty text and undefined are falsy
Truthy(text) == text # << >>

\* no delay found yet: let currentDelay = 0; let isAzureSuggestedDelay = false
NoSuggestion == [currentDelay |-> 0, isAzureSuggestedDelay |-> FALSE, source |-> "none"]

\* error.statusCode === 429  (line 586)
IsRateLimit(error) == error.statusCode = TOO_MANY_REQUESTS

\* variant: the suggested delay is used only when it is positive
RetryAfterInMsDelay_PositiveOnly(error) ==
  IF error.retryAfterInMs > 0
  THEN [currentDelay |-> error.retryAfterInMs, isAzureSuggestedDelay |-> TRUE,
        source |-> "retryAfterInMs"]
  ELSE [currentDelay |-> 0, isAzureSuggestedDelay |-> FALSE, source |-> "none"]

\* 1. error.retryAfterInMs, taken as it is when it is a number (lines 588-590)
RetryAfterInMsDelay(error) ==
  [currentDelay |-> error.retryAfterInMs, isAzureSuggestedDelay |-> TRUE,
   source |-> "retryAfterInMs"]

\* variant: the header value is taken as milliseconds
HeaderToMs_NoConversion(retryAfterSeconds) == retryAfterSeconds

\* the unit conversion of the header value (line 600)
HeaderToMs(retryAfterSeconds) == retryAfterSeconds * 1000

\* 2. the retry-after header, parsed as a number of seconds (lines 596-603)
RetryAfterHeaderDelay(error) ==
  LET retryAfterHeader  == error.retryAfterHeader
      retryAfterSeconds == ParseInt(retryAfterHeader)
  IN  IF Truthy(retryAfterHeader) /\ ~retryAfterSeconds.isNaN
      THEN [currentDelay |-> HeaderToMs(retryAfterSeconds.val),
            isAzureSuggestedDelay |-> TRUE, source |-> "header"]
      ELSE NoSuggestion

\* variant: the message is parsed even when a delay was already found
MessageDelay_Always(error, found) ==
  LET messageMatch      == MessageMatch(error.message)
      retryAfterSeconds == ParseInt(messageMatch)
  IN  IF Truthy(error.message) /\ Truthy(messageMatch) /\ ~retryAfterSeconds.isNaN
      THEN [currentDelay |-> retryAfterSeconds.val * 1000,
            isAzureSuggestedDelay |-> TRUE, source |-> "message"]
      ELSE found

\* 3. "retry after N seconds" in the message, tried only when no delay was
\*    found yet (lines 607-616)
MessageDelay(error, found) ==
  IF ~found.isAzureSuggestedDelay /\ Truthy(error.message)
  THEN LET messageMatch      == MessageMatch(error.message)
           retryAfterSeconds == ParseInt(messageMatch)
       IN  IF Truthy(messageMatch) /\ ~retryAfterSeconds.isNaN
           THEN [currentDelay |-> retryAfterSeconds.val * 1000,
                 isAzureSuggestedDelay |-> TRUE, source |-> "message"]
           ELSE found
  ELSE found

\* the service-suggested delay, looked for only in a 429 failure (lines 586-617)
SuggestedDelay(error) ==
  IF IsRateLimit(error)
  THEN MessageDelay(error,
                    IF error.hasRetryAfterInMs
                    THEN RetryAfterInMsDelay(error)
                    ELSE RetryAfterHeaderDelay(error))
  ELSE NoSuggestion

\* variant: linear instead of exponential growth
ExponentialBackoff_Linear(k) == INITIAL_DELAY_MS * (k + 1)

\* variant: the exponent counts attempts from 1
ExponentialBackoff_FromOne(k) == INITIAL_DELAY_MS * (2 ^ (k + 1))

\* 4. initialDelay * Math.pow(2, attempt)  (line 621)
ExponentialBackoff(k) == INITIAL_DELAY_MS * (2 ^ k)

\* the delay before the cap, with its source (lines 581-622)
SelectDelay(error, k) ==
  LET found == SuggestedDelay(error)
  IN  IF ~found.isAzureSuggestedDelay
      THEN [currentDelay |-> ExponentialBackoff(k),
            isAzureSuggestedDelay |-> FALSE, source |-> "backoff"]
      ELSE found

\* currentDelay = Math.min(currentDelay, MAX_DELAY_MS)  (line 624)
CapDelay(d) == Min(d, MAX_DELAY_MS)

\* variant: the retry guard one long (attempt <= maxRetries)
HasRetriesLeft_OneLong(k) == k <= MAX_RETRIES

\* variant: the retry guard one short (attempt < maxRetries - 1)
HasRetriesLeft_OneShort(k) == k < MAX_RETRIES - 1

\* variant: the first failure is thrown at once, nothing is retried
HasRetriesLeft_Never(k) == FALSE

\* attempt < maxRetries: a retry is left after this failure (line 580)
HasRetriesLeft(k) == k < MAX_RETRIES

\* attempt <= maxRetries: the condition of the for loop (line 573)
LoopCondition(k) == k <= MAX_RETRIES

\* setTimeout(resolve, d) fires after d ms, and at once when d is not positive
TimerDuration(d) == Max(d, 0)

\* ------------------------------------------------------------------------
\* What analyzeDocument returns (lines 643-687)
\* ------------------------------------------------------------------------
NO_INVOICE_DATA == <<"No invoice data found in document">>

NO_TABLE_DATA == <<"No table data found in document">>

NO_RESULT == <<"No result from Azure Form Recognizer">>

\* the return value after the loop was left with a result (lines 643-684);
\* the extracted data is named by the extractor and the output it is applied to
ResultReturn(res, docType) ==
  IF res = Undefined
  THEN [success |-> FALSE, error |-> NO_RESULT]
  ELSE IF docType = "invoice"
       THEN IF res.documents > 0
            THEN [success |-> TRUE,
                  data |-> [extractor |-> "extractInvoiceData", output |-> res]]
            ELSE [success |-> FALSE, error |-> NO_INVOICE_DATA]
       ELSE IF res.tables > 0
            THEN [success |-> TRUE,
                  data |-> [extractor |-> "replaceImportHeaders", output |-> res]]
            ELSE [success |-> FALSE, error |-> NO_TABLE_DATA]

\* variant: the failed result carries no message
FailureReturn_NoMessage(error) == [success |-> FALSE]

\* the outer catch: return { success: false, error: error.message } (lines 685-687)
FailureReturn(error) == [success |-> FALSE, error |-> error.message]

\* ------------------------------------------------------------------------
\* State of one call of analyzeDocument
\* ------------------------------------------------------------------------
VARIABLES
  documentType,           \* the documentType argument
  pc,                     \* "Attempting", "Delay", "Success", "TerminalFailure", "NoResult"
  attempt,                \* the loop variable (line 573)
  lastError,              \* line 571
  result,                 \* line 570
  currentDelay,           \* line 581, after the cap of line 624
  isAzureSuggestedDelay,  \* line 582
  ret,                    \* the value the returned promise resolves with
  now,                    \* the timer clock, in ms since the call started
  wakeAt,                 \* when the pending setTimeout of line 632 fires
  calls,                  \* calls of client.beginAnalyzeDocument (line 575)
  warns,                  \* calls of console.warn (line 627)
  errors,                 \* calls of console.error (line 634)
  rawDelay,               \* history: currentDelay before the cap of line 624
  delaySource,            \* history: the branch that set currentDelay
  fails,                  \* history: attempts that were rejected
  genericOnly             \* history: no rejection so far carried a delay hint

callVars == <<documentType, pc, attempt, lastError, result, currentDelay,
              isAzureSuggestedDelay, ret, now, wakeAt, calls, warns, errors,
              rawDelay, delaySource, fails, genericOnly>>

\* ------------------------------------------------------------------------
\* State of one run of handleProcess (src/pages/Index.tsx, lines 331-511)
\* ------------------------------------------------------------------------
VARIABLES
  files,                  \* the uploaded files: files[f] is the page count of file f
  multiPage,              \* the multi-page setting (line 322)
  config,                 \* the endpoint and key of import.meta.env (document-processor.ts 558-559)
  status,                 \* line 326
  runPc,                  \* the await the run is suspended at
  i,                      \* the file of the counting loop and of the main loop (lines 354, 360)
  p,                      \* the page of the current file (line 366)
  r,                      \* the entry of failedPages the second pass is at (line 426)
  a,                      \* the entry of invoiceAggregation being exported (line 470)
  processedPages,         \* line 352
  interRequestDelay,      \* line 359
  failedPages,            \* line 344
  finalErrorCount,        \* line 419
  invoiceAggregation,     \* lines 345-348
  downloads,              \* the spreadsheets handed to the browser (link.click())
  toasts,                 \* the "Permanent failure for page" toasts (lines 462-463)
  sleepLeft,              \* what is left of the pending setTimeout of line 372 or 428
  waited,                 \* history: ms the run's own timers ran since the last result
  inflight,               \* history: service requests issued and not yet answered
  history,                \* history: per page, result.success of each analysis returned
  saw429,                 \* history: some attempt of this run was rejected with 429
  abortCause              \* history: the call whose exception reached the catch of line 503

driverVars == <<files, multiPage, config, status, runPc, i, p, r, a,
                processedPages, interRequestDelay, failedPages,
                finalErrorCount, invoiceAggregation, downloads, toasts,
                sleepLeft, waited, inflight, history, saw429, abortCause>>

\* ------------------------------------------------------------------------
\* State of the handling of one table of a purchase order
\* (document-processor.ts, lines 652-677 and 711-721)
\* ------------------------------------------------------------------------
VARIABLES
  table,                  \* the table of result.tables: its cell list (line 653)
  tablePc,                \* where the handling of the table is
  tableData,              \* line 654
  processedData,          \* line 655
  poResult,               \* what analyzeDocument returns for the table (line 677)
  sanitizedItems          \* line 714

tableVars == <<table, tablePc, tableData, processedData, poResult,
               sanitizedItems>>

VARIABLES
  invoiceDocument,        \* result.documents[0] of an invoice analysis (line 485)
  invoicePc,              \* where the handling of the document is
  invoiceResult           \* what analyzeDocument returns for the document (line 647)

invoiceVars == <<invoiceDocument, invoicePc, invoiceResult>>

vars == <<callVars, driverVars, tableVars, invoiceVars>>

\* no invoice document is being handled
NoInvoice ==
  /\ invoiceDocument = [fields |-> << >>]
  /\ invoicePc = "NoInvoice"
  /\ invoiceResult = Undefined

\* no table is being handled
NoTable ==
  /\ table = [cells |-> << >>]
  /\ tablePc = "NoTable"
  /\ tableData = << >>
  /\ processedData = << >>
  /\ poResult = Undefined
  /\ sanitizedItems = << >>

\* the failure carries none of the three delay hints
CarriesNoHint(error) ==
  /\ ~error.hasRetryAfterInMs
  /\ error.retryAfterHeader = << >>
  /\ MessageMatch(error.message) = << >>

\* variant: the run starts with half the delay
InitialInterRequestDelay_Halved == 1000 \div 2

\* let interRequestDelay = 1000  (Index.tsx line 359)
InitialInterRequestDelay == 1000

\* Math.min(interRequestDelay * 2, 30000)  (Index.tsx line 412)
MaxInterRequestDelay == 30000

\* const retryDelay = 5000  (Index.tsx line 424)
retryDelay == 5000

\* the pages splitPdf makes of the uploaded files: page k of file f
Pages == UNION {{<<f, k>> : k \in 1..files[f]} : f \in 1..Len(files)}

\* invoiceAggregation of a run that does not aggregate: null (line 348)
NoAggregation == [on |-> FALSE, entries |-> << >>]

\* the locals of handleProcess as they are declared (lines 343-359, 419)
DriverInit ==
  /\ status = "idle"
  /\ runPc = "Idle"
  /\ i = 0
  /\ p = 0
  /\ r = 0
  /\ a = 0
  /\ processedPages = 0
  /\ interRequestDelay = InitialInterRequestDelay
  /\ failedPages = << >>
  /\ finalErrorCount = 0
  /\ invoiceAggregation = NoAggregation
  /\ downloads = << >>
  /\ toasts = << >>
  /\ sleepLeft = 0
  /\ waited = 0
  /\ inflight = 0
  /\ history = [page \in Pages |-> << >>]
  /\ saw429 = FALSE
  /\ abortCause = "none"

\* one call of analyzeDocument on its own, as the unit tests make it: the
\* configuration is present and no run is under way
Init ==
  /\ files = << >>
  /\ multiPage = FALSE
  /\ config = "ok"
  /\ DriverInit
  /\ NoTable
  /\ NoInvoice
  /\ documentType \in DocumentTypes
  /\ pc = "Attempting"
  /\ attempt = 0
  /\ lastError = Undefined
  /\ result = Undefined
  /\ currentDelay = 0
  /\ isAzureSuggestedDelay = FALSE
  /\ ret = Undefined
  /\ now = 0
  /\ wakeAt = 0
  /\ calls = 0
  /\ warns = 0
  /\ errors = 0
  /\ rawDelay = 0
  /\ delaySource = "none"
  /\ fails = 0
  /\ genericOnly = TRUE

\* variant: a result obtained after a failed attempt is returned as the
\* failure of that attempt
AttemptSucceeds_KeepsError(out) ==
  /\ pc = "Attempting"
  /\ calls' = calls + 1
  /\ result' = out
  /\ ret' = IF lastError = Undefined THEN ResultReturn(out, documentType)
            ELSE FailureReturn(lastError)
  /\ pc' = "Success"
  /\ UNCHANGED <<documentType, attempt, lastError, currentDelay,
                 isAzureSuggestedDelay, now, wakeAt, warns, errors, rawDelay,
                 delaySource, fails, genericOnly>>

\* lines 575-577 and 643-684: the service resolves with output out, the loop
\* is left by break and the result is turned into the return value
AttemptSucceeds(out) ==
  /\ pc = "Attempting"
  /\ calls' = calls + 1
  /\ result' = out
  /\ ret' = ResultReturn(out, documentType)
  /\ pc' = "Success"
  /\ UNCHANGED <<documentType, attempt, lastError, currentDelay,
                 isAzureSuggestedDelay, now, wakeAt, warns, errors, rawDelay,
                 delaySource, fails, genericOnly>>

\* lines 575-639 and 685-687: the service rejects with error.  With a retry
\* left the handler selects the delay, warns and starts the timer; without,
\* it logs the error and throws it to the outer catch, which returns it
AttemptFails(error) ==
  /\ pc = "Attempting"
  /\ calls' = calls + 1
  /\ lastError' = error
  /\ fails' = fails + 1
  /\ genericOnly' = (genericOnly /\ CarriesNoHint(error))
  /\ IF HasRetriesLeft(attempt)
     THEN LET selected == SelectDelay(error, attempt)
          IN  /\ rawDelay' = selected.currentDelay
              /\ delaySource' = selected.source
              /\ isAzureSuggestedDelay' = selected.isAzureSuggestedDelay
              /\ currentDelay' = CapDelay(selected.currentDelay)
              /\ warns' = warns + 1
              /\ wakeAt' = now + TimerDuration(CapDelay(selected.currentDelay))
              /\ pc' = "Delay"
              /\ UNCHANGED <<errors, ret>>
     ELSE /\ errors' = errors + 1
          /\ ret' = FailureReturn(error)
          /\ pc' = "TerminalFailure"
          /\ UNCHANGED <<rawDelay, delaySource, isAzureSuggestedDelay,
                         currentDelay, warns, wakeAt>>
  /\ UNCHANGED <<documentType, attempt, result, now>>

\* variant: the delay promise is not awaited, the loop goes on at once
TimerElapsed_NotAwaited == TRUE

\* the timer of line 632 has run its whole duration
TimerElapsed == now >= wakeAt

\* time passes while the call is suspended at line 632: to the moment the
\* timer fires or, from the start of the delay, to the middle of it
Elapse ==
  /\ pc = "Delay"
  /\ now < wakeAt
  /\ \E t \in {wakeAt} \cup
              (IF now = wakeAt - TimerDuration(currentDelay) /\ wakeAt - now >= 2
               THEN {now + ((wakeAt - now) \div 2)} ELSE {}) :
       now' = t
  /\ UNCHANGED <<documentType, pc, attempt, lastError, result, currentDelay,
                 isAzureSuggestedDelay, ret, wakeAt, calls, warns, errors,
                 rawDelay, delaySource, fails, genericOnly>>

\* lines 632, 573 and 684: the timer fires, attempt++ and the loop condition
\* is evaluated; when it is false the loop is left without a result
Resume ==
  /\ pc = "Delay"
  /\ TimerElapsed
  /\ attempt' = attempt + 1
  /\ currentDelay' = 0
  /\ isAzureSuggestedDelay' = FALSE
  /\ IF LoopCondition(attempt + 1)
     THEN /\ pc' = "Attempting"
          /\ ret' = ret
     ELSE /\ pc' = "NoResult"
          /\ ret' = ResultReturn(result, documentType)
  /\ UNCHANGED <<documentType, lastError, result, now, wakeAt, calls, warns,
                 errors, rawDelay, delaySource, fails, genericOnly>>

Next ==
  \/ \E out \in Outputs : AttemptSucceeds(out) /\ UNCHANGED <<driverVars, tableVars, invoiceVars>>
  \/ \E error \in Errors : AttemptFails(error) /\ UNCHANGED <<driverVars, tableVars, invoiceVars>>
  \/ Elapse /\ UNCHANGED <<driverVars, tableVars, invoiceVars>>
  \/ Resume /\ UNCHANGED <<driverVars, tableVars, invoiceVars>>

Spec == Init /\ [][Next]_vars

\* ------------------------------------------------------------------------
\* The run: handleProcess drives analyzeDocument over the pages of the files
\* ------------------------------------------------------------------------
\* bound of the uploads that are explored: the pages of all files together
MaxPages == 3

RECURSIVE SumPages(_)
SumPages(counts) ==
  IF counts = << >> THEN 0 ELSE Head(counts) + SumPages(Tail(counts))

\* the uploads: files of one page or more, of MaxPages pages at most together
FileLayouts ==
  {counts \in UNION {[1..n -> 1..MaxPages] : n \in 1..MaxPages} :
     SumPages(counts) <= MaxPages}

\* the endpoint and key are present and accepted, absent, or present and
\* refused by the service (document-processor.ts lines 558-560)
Configs == {"ok", "missing", "invalid"}

MSG_CONFIG == <<"k", "e", "y">>

\* what the constructors of line 560 throw when a value is absent
ConfigError == [message |-> MSG_CONFIG]

\* the failures the service answers with during a run
RunErrors ==
  { [statusCode |-> TOO_MANY_REQUESTS, hasRetryAfterInMs |-> FALSE,
     retryAfterInMs |-> 0, retryAfterHeader |-> << >>, message |-> MSG_FAIL],
    [statusCode |-> NoStatus, hasRetryAfterInMs |-> FALSE,
     retryAfterInMs |-> 0, retryAfterHeader |-> << >>, message |-> << >>] }

\* the outputs the service answers with during a run: without and with data
RunOutputs == {[documents |-> 0, tables |-> 0], [documents |-> 1, tables |-> 1]}

\* variant: the attempt counter lives outside the call and is carried over
InitialAttempt_Carried(previous) == previous

\* for (let attempt = 0; ...): the counter of a new call (line 573)
InitialAttempt(previous) == 0

\* variant: the caller goes on without awaiting the analysis
AnalysisReturned_NotAwaited == TRUE

\* the promise of analyzeDocument has resolved (the awaits of lines 377, 431)
AnalysisReturned ==
  pc \in {"Success", "TerminalFailure", "NoResult", "ConfigFailure"}

\* variant: the run's own delay is not awaited
DriverTimerElapsed_NotAwaited == TRUE

\* the timer of line 372 or line 428 has fired
DriverTimerElapsed == sleepLeft = 0

\* variant: every result is taken for a success
Succeeded_Always(x) == TRUE

\* if (result.success)  (lines 379, 433)
Succeeded(x) == "success" \in DOMAIN x /\ x.success

\* result.documentType === 'invoice'  (lines 380, 435)
IsInvoiceResult(x) == "documentType" \in DOMAIN x /\ x.documentType = "invoice"

\* result.statusCode === 429  (line 411)
SignalsRateLimit(x) == "statusCode" \in DOMAIN x /\ x.statusCode = TOO_MANY_REQUESTS

\* Math.min(interRequestDelay * 2, 30000)  (line 412)
Escalate(d) == Min(d * 2, MaxInterRequestDelay)

UNKNOWN == <<"Unknown">>

\* result.error || 'Unknown'  (lines 406, 462)
Reason(x) == IF "error" \in DOMAIN x /\ Truthy(x.error) THEN x.error ELSE UNKNOWN

\* invoiceAggregation.get(name) ?? { pages: [] }; push; set  (lines 383-386, 438-441)
Push(agg, name, page) ==
  IF \E j \in 1..Len(agg.entries) : agg.entries[j].name = name
  THEN [agg EXCEPT !.entries =
          [j \in 1..Len(agg.entries) |->
             IF agg.entries[j].name = name
             THEN [agg.entries[j] EXCEPT !.pages = Append(@, page)]
             ELSE agg.entries[j]]]
  ELSE [agg EXCEPT !.entries = Append(@, [name |-> name, pages |-> <<page>>])]

\* where the run stands
Here ==
  [status |-> status, runPc |-> runPc, i |-> i, p |-> p, r |-> r, a |-> a,
   processedPages |-> processedPages, sleepLeft |-> sleepLeft]

Goto(c) ==
  /\ status' = c.status
  /\ runPc' = c.runPc
  /\ i' = c.i
  /\ p' = c.p
  /\ r' = c.r
  /\ a' = c.a
  /\ processedPages' = c.processedPages
  /\ sleepLeft' = c.sleepLeft

\* variant: the catch leaves the status as it was
CatchStatus_Unset == "processing"

\* setStatus('error') of the catch (line 504)
CatchStatus == "error"

\* the catch of lines 503-510
Aborted == [Here EXCEPT !.status = CatchStatus, !.runPc = "Aborted"]

\* variant: the run is reported as a success whatever failed
Finish_AlwaysSuccess(count) == [Here EXCEPT !.status = "success", !.runPc = "Done"]

\* lines 486-501: the final status
Finish(count) ==
  [Here EXCEPT !.status = IF count > 0 THEN "error" ELSE "success",
               !.runPc = "Done"]

\* lines 469-484: the next aggregate with pages, from entry from on, is
\* handed to generateExcelOutput; without one the run finishes
AggregationFrom(agg, from, count) ==
  LET rest == {j \in from..Len(agg.entries) : Len(agg.entries[j].pages) # 0}
  IN  IF agg.on /\ rest # {}
      THEN [Here EXCEPT !.runPc = "ExportAggregate",
                        !.a = CHOOSE j \in rest : \A k \in rest : j <= k]
      ELSE Finish(count)

\* variant: a second pass that leaves permanent failures is run again
SecondPassFrom_Requeue(failed, from, agg, count) ==
  IF from <= Len(failed)
  THEN [Here EXCEPT !.runPc = "RetryWait", !.r = from, !.sleepLeft = retryDelay]
  ELSE IF count > 0
       THEN [Here EXCEPT !.runPc = "RetryWait", !.r = 1, !.sleepLeft = retryDelay]
       ELSE AggregationFrom(agg, 1, count)

\* lines 420-428: the next failed page, from entry from on, is waited for
SecondPassFrom(failed, from, agg, count) ==
  IF from <= Len(failed)
  THEN [Here EXCEPT !.runPc = "RetryWait", !.r = from, !.sleepLeft = retryDelay]
  ELSE AggregationFrom(agg, 1, count)

\* variant: the next page of a file is analysed without the inter-page delay
FirstPassNext_NoDelay(failed, agg, delay) ==
  IF p < files[i]
  THEN [Here EXCEPT !.runPc = "Pacing", !.p = p + 1,
                    !.processedPages = processedPages + 1,
                    !.sleepLeft = 0]
  ELSE IF i < Len(files)
       THEN [Here EXCEPT !.runPc = "Splitting", !.i = i + 1, !.p = 0]
       ELSE SecondPassFrom(failed, 1, agg, 0)

\* variant: the first page that fails ends the first pass
FirstPassNext_StopOnFailure(failed, agg, delay) ==
  IF failed # << >>
  THEN SecondPassFrom(failed, 1, agg, 0)
  ELSE IF p < files[i]
       THEN [Here EXCEPT !.runPc = "Pacing", !.p = p + 1,
                         !.processedPages = processedPages + 1,
                         !.sleepLeft = delay]
       ELSE IF i < Len(files)
            THEN [Here EXCEPT !.runPc = "Splitting", !.i = i + 1, !.p = 0]
            ELSE SecondPassFrom(failed, 1, agg, 0)

\* lines 360-373 and 419: after a page of the first pass the next page of the
\* file is paced, or the next file is split, or the second pass begins
FirstPassNext(failed, agg, delay) ==
  IF p < files[i]
  THEN [Here EXCEPT !.runPc = "Pacing", !.p = p + 1,
                    !.processedPages = processedPages + 1,
                    !.sleepLeft = delay]
  ELSE IF i < Len(files)
       THEN [Here EXCEPT !.runPc = "Splitting", !.i = i + 1, !.p = 0]
       ELSE SecondPassFrom(failed, 1, agg, 0)

\* the page the analysis under way is of
CurrentPage == IF runPc = "SecondPass" THEN failedPages[r].page ELSE <<i, p>>

\* variant: the second pass exports the page the main loop stopped at
ExportRequest_LoopPage ==
  IF runPc = "ExportAggregate"
  THEN [kind |-> "aggregate", name |-> invoiceAggregation.entries[a].name,
        pages |-> invoiceAggregation.entries[a].pages, documentType |-> "invoice"]
  ELSE [kind |-> "page", name |-> <<i, p>>, pages |-> <<(<<i, p>>)>>,
        documentType |-> IF IsInvoiceResult(ret) THEN "invoice"
                         ELSE "purchase-order"]

\* the call of generateExcelOutput the run is suspended at
ExportRequest ==
  IF runPc = "ExportAggregate"
  THEN [kind |-> "aggregate", name |-> invoiceAggregation.entries[a].name,
        pages |-> invoiceAggregation.entries[a].pages, documentType |-> "invoice"]
  ELSE LET page == IF runPc = "ExportSecond" THEN failedPages[r].page ELSE <<i, p>>
       IN  [kind |-> "page", name |-> page, pages |-> <<page>>,
            documentType |-> IF IsInvoiceResult(ret) THEN "invoice"
                             ELSE "purchase-order"]

envVars == <<files, multiPage, config>>

RunInit ==
  /\ files \in FileLayouts
  /\ multiPage \in BOOLEAN
  /\ config \in Configs
  /\ DriverInit
  /\ NoTable
  /\ NoInvoice
  /\ documentType \in DocumentTypes
  /\ pc = "NotCalled"
  /\ attempt = 0
  /\ lastError = Undefined
  /\ result = Undefined
  /\ currentDelay = 0
  /\ isAzureSuggestedDelay = FALSE
  /\ ret = Undefined
  /\ now = 0
  /\ wakeAt = 0
  /\ calls = 0
  /\ warns = 0
  /\ errors = 0
  /\ rawDelay = 0
  /\ delaySource = "none"
  /\ fails = 0
  /\ genericOnly = TRUE

\* lines 332-354: the run starts and the counting loop asks for the first file
StartRun ==
  /\ runPc = "Idle"
  /\ Len(files) # 0
  /\ Goto([Here EXCEPT !.status = "processing", !.runPc = "Counting", !.i = 1])
  /\ invoiceAggregation' =
       [on |-> documentType = "invoice" /\ multiPage, entries |-> << >>]
  /\ UNCHANGED <<callVars, envVars, interRequestDelay, failedPages,
                 finalErrorCount, downloads, toasts, waited, inflight,
                 history, saw429, abortCause>>

\* lines 354-357: splitPdf answers in the counting loop, or throws
CountPages(ok) ==
  /\ runPc = "Counting"
  /\ IF ok
     THEN /\ Goto(IF i < Len(files)
                  THEN [Here EXCEPT !.i = i + 1]
                  ELSE [Here EXCEPT !.runPc = "Splitting", !.i = 1])
          /\ abortCause' = abortCause
     ELSE /\ Goto(Aborted)
          /\ abortCause' = "splitPdf"
  /\ UNCHANGED <<callVars, envVars, interRequestDelay, failedPages,
                 finalErrorCount, invoiceAggregation, downloads, toasts,
                 waited, inflight, history, saw429>>

\* document-processor.ts lines 557-575: a call of analyzeDocument begins.
\* The constructors throw into the catch of line 685 when the configuration
\* is absent; otherwise the loop is entered and the first request is issued
BeginAnalysis(page) ==
  /\ attempt' = InitialAttempt(attempt)
  /\ lastError' = Undefined
  /\ result' = Undefined
  /\ currentDelay' = 0
  /\ isAzureSuggestedDelay' = FALSE
  /\ now' = 0
  /\ wakeAt' = 0
  /\ calls' = 0
  /\ warns' = 0
  /\ errors' = 0
  /\ rawDelay' = 0
  /\ delaySource' = "none"
  /\ fails' = 0
  /\ genericOnly' = TRUE
  /\ IF config = "missing"
     THEN /\ pc' = "ConfigFailure"
          /\ ret' = FailureReturn(ConfigError)
          /\ inflight' = inflight
          /\ history' = [history EXCEPT ![page] = Append(@, FALSE)]
     ELSE /\ pc' = "Attempting"
          /\ ret' = Undefined
          /\ inflight' = inflight + 1
          /\ history' = history
  /\ UNCHANGED documentType

\* lines 364-377: splitPdf answers in the main loop, or throws; the first
\* page of the file is paced unless it is the first page of the run
SplitFile(ok) ==
  /\ runPc = "Splitting"
  /\ IF ~ok
     THEN /\ Goto(Aborted)
          /\ abortCause' = "splitPdf"
          /\ UNCHANGED <<callVars, inflight, history>>
     ELSE /\ abortCause' = abortCause
          /\ IF processedPages + 1 > 1
             THEN /\ Goto([Here EXCEPT !.runPc = "Pacing", !.p = 1,
                                       !.processedPages = processedPages + 1,
                                       !.sleepLeft = interRequestDelay])
                  /\ UNCHANGED <<callVars, inflight, history>>
             ELSE /\ Goto([Here EXCEPT !.runPc = "FirstPass", !.p = 1,
                                       !.processedPages = processedPages + 1])
                  /\ BeginAnalysis(<<i, 1>>)
  /\ UNCHANGED <<envVars, interRequestDelay, failedPages, finalErrorCount,
                 invoiceAggregation, downloads, toasts, waited, saw429>>

\* lines 372 and 428: time passes until the run's timer fires
RunTimerPasses ==
  /\ runPc \in {"Pacing", "RetryWait"}
  /\ sleepLeft > 0
  /\ sleepLeft' = 0
  /\ waited' = waited + sleepLeft
  /\ UNCHANGED <<callVars, envVars, status, runPc, i, p, r, a, processedPages,
                 interRequestDelay, failedPages, finalErrorCount,
                 invoiceAggregation, downloads, toasts, inflight, history,
                 saw429, abortCause>>

\* lines 372-377: the pacing delay is over and the page is analysed
PacingEnds ==
  /\ runPc = "Pacing"
  /\ DriverTimerElapsed
  /\ Goto([Here EXCEPT !.runPc = "FirstPass"])
  /\ BeginAnalysis(<<i, p>>)
  /\ UNCHANGED <<envVars, interRequestDelay, failedPages, finalErrorCount,
                 invoiceAggregation, downloads, toasts, waited, saw429,
                 abortCause>>

\* lines 428-431: the retry delay is over and the failed page is analysed again
RetryWaitEnds ==
  /\ runPc = "RetryWait"
  /\ DriverTimerElapsed
  /\ Goto([Here EXCEPT !.runPc = "SecondPass"])
  /\ BeginAnalysis(failedPages[r].page)
  /\ UNCHANGED <<envVars, interRequestDelay, failedPages, finalErrorCount,
                 invoiceAggregation, downloads, toasts, waited, saw429,
                 abortCause>>

\* the service resolves the request of the call under way
ServiceResolves ==
  /\ config = "ok"
  /\ \E out \in RunOutputs : AttemptSucceeds(out)
  /\ inflight' = inflight - 1
  /\ history' = [history EXCEPT ![CurrentPage] = Append(@, ret'.success)]
  /\ UNCHANGED <<envVars, status, runPc, i, p, r, a, processedPages,
                 interRequestDelay, failedPages, finalErrorCount,
                 invoiceAggregation, downloads, toasts, sleepLeft, waited,
                 saw429, abortCause>>

\* the service rejects the request of the call under way
ServiceRejects ==
  /\ \E error \in RunErrors :
       /\ AttemptFails(error)
       /\ saw429' = (saw429 \/ IsRateLimit(error))
  /\ inflight' = inflight - 1
  /\ history' = IF pc' = "TerminalFailure"
                THEN [history EXCEPT ![CurrentPage] = Append(@, FALSE)]
                ELSE history
  /\ UNCHANGED <<envVars, status, runPc, i, p, r, a, processedPages,
                 interRequestDelay, failedPages, finalErrorCount,
                 invoiceAggregation, downloads, toasts, sleepLeft, waited,
                 abortCause>>

\* time passes while the call under way waits to retry
RetryDelayPasses ==
  /\ Elapse
  /\ UNCHANGED driverVars

\* the call under way issues its next request
RetryDelayEnds ==
  /\ Resume
  /\ inflight' = IF pc' = "Attempting" THEN inflight + 1 ELSE inflight
  /\ history' = IF pc' = "NoResult"
                THEN [history EXCEPT ![CurrentPage] = Append(@, ret'.success)]
                ELSE history
  /\ UNCHANGED <<envVars, status, runPc, i, p, r, a, processedPages,
                 interRequestDelay, failedPages, finalErrorCount,
                 invoiceAggregation, downloads, toasts, sleepLeft, waited,
                 saw429, abortCause>>

\* lines 377-415: the result of a first-pass analysis.  A success is
\* aggregated or handed to generateExcelOutput; a failure is queued and, when
\* the result carries status 429, the inter-page delay is doubled
FirstPassResult ==
  /\ runPc = "FirstPass"
  /\ AnalysisReturned
  /\ waited' = 0
  /\ IF Succeeded(ret)
     THEN /\ UNCHANGED <<failedPages, interRequestDelay>>
          /\ IF IsInvoiceResult(ret) /\ invoiceAggregation.on
             THEN LET agg == Push(invoiceAggregation, i, <<i, p>>)
                  IN  /\ invoiceAggregation' = agg
                      /\ Goto(FirstPassNext(failedPages, agg, interRequestDelay))
             ELSE /\ invoiceAggregation' = invoiceAggregation
                  /\ Goto([Here EXCEPT !.runPc = "ExportFirst"])
     ELSE LET failed == Append(failedPages, [page |-> <<i, p>>, parentFileName |-> i])
              delay  == IF SignalsRateLimit(ret)
                        THEN Escalate(interRequestDelay)
                        ELSE interRequestDelay
          IN  /\ failedPages' = failed
              /\ interRequestDelay' = delay
              /\ invoiceAggregation' = invoiceAggregation
              /\ Goto(FirstPassNext(failed, invoiceAggregation, delay))
  /\ UNCHANGED <<callVars, envVars, finalErrorCount, downloads, toasts,
                 inflight, history, saw429, abortCause>>

\* lines 431-465: the result of a second-pass analysis.  A success is
\* aggregated or handed to generateExcelOutput; a failure is permanent: it is
\* counted and reported with the page and the reason
SecondPassResult ==
  /\ runPc = "SecondPass"
  /\ AnalysisReturned
  /\ waited' = 0
  /\ IF Succeeded(ret)
     THEN /\ UNCHANGED <<finalErrorCount, toasts>>
          /\ IF IsInvoiceResult(ret) /\ invoiceAggregation.on
             THEN LET agg == Push(invoiceAggregation, failedPages[r].parentFileName,
                                  failedPages[r].page)
                  IN  /\ invoiceAggregation' = agg
                      /\ Goto(SecondPassFrom(failedPages, r + 1, agg, finalErrorCount))
             ELSE /\ invoiceAggregation' = invoiceAggregation
                  /\ Goto([Here EXCEPT !.runPc = "ExportSecond"])
     ELSE /\ finalErrorCount' = finalErrorCount + 1
          /\ toasts' = Append(toasts, [page |-> failedPages[r].page,
                                       reason |-> Reason(ret)])
          /\ invoiceAggregation' = invoiceAggregation
          /\ Goto(SecondPassFrom(failedPages, r + 1, invoiceAggregation,
                                 finalErrorCount + 1))
  /\ UNCHANGED <<callVars, envVars, interRequestDelay, failedPages, downloads,
                 inflight, history, saw429, abortCause>>

\* lines 389-394, 398-403, 444-458 and 477-482: generateExcelOutput answers
\* and the spreadsheet is downloaded, or it throws
ExportDone(ok) ==
  /\ runPc \in {"ExportFirst", "ExportSecond", "ExportAggregate"}
  /\ IF ok
     THEN /\ downloads' = Append(downloads, ExportRequest)
          /\ abortCause' = abortCause
          /\ Goto(CASE runPc = "ExportFirst" ->
                         FirstPassNext(failedPages, invoiceAggregation,
                                       interRequestDelay)
                    [] runPc = "ExportSecond" ->
                         SecondPassFrom(failedPages, r + 1, invoiceAggregation,
                                        finalErrorCount)
                    [] runPc = "ExportAggregate" ->
                         AggregationFrom(invoiceAggregation, a + 1,
                                         finalErrorCount))
     ELSE /\ downloads' = downloads
          /\ abortCause' = "generateExcelOutput"
          /\ Goto(Aborted)
  /\ UNCHANGED <<callVars, envVars, interRequestDelay, failedPages,
                 finalErrorCount, invoiceAggregation, toasts, waited,
                 inflight, history, saw429>>

RunNext ==
  \/ StartRun /\ UNCHANGED <<tableVars, invoiceVars>>
  \/ \E ok \in BOOLEAN : CountPages(ok) /\ UNCHANGED <<tableVars, invoiceVars>>
  \/ \E ok \in BOOLEAN : SplitFile(ok) /\ UNCHANGED <<tableVars, invoiceVars>>
  \/ RunTimerPasses /\ UNCHANGED <<tableVars, invoiceVars>>
  \/ PacingEnds /\ UNCHANGED <<tableVars, invoiceVars>>
  \/ RetryWaitEnds /\ UNCHANGED <<tableVars, invoiceVars>>
  \/ ServiceResolves /\ UNCHANGED <<tableVars, invoiceVars>>
  \/ ServiceRejects /\ UNCHANGED <<tableVars, invoiceVars>>
  \/ RetryDelayPasses /\ UNCHANGED <<tableVars, invoiceVars>>
  \/ RetryDelayEnds /\ UNCHANGED <<tableVars, invoiceVars>>
  \/ FirstPassResult /\ UNCHANGED <<tableVars, invoiceVars>>
  \/ SecondPassResult /\ UNCHANGED <<tableVars, invoiceVars>>
  \/ \E ok \in BOOLEAN : ExportDone(ok) /\ UNCHANGED <<tableVars, invoiceVars>>

RunSpec == RunInit /\ [][RunNext]_vars

\* the event loop runs every continuation that is ready, and the service and
\* the libraries answer every request
FairRunSpec == RunSpec /\ WF_vars(RunNext)

\* ------------------------------------------------------------------------
\* The tables of a purchase order
\* (document-processor.ts, lines 406-451, 652-677 and 711-721)
\*
\* One behaviour of TableSpec is the handling of one table: the service has
\* answered a purchase-order analysis with one table, analyzeDocument turns
\* it into line items and a total, and generateExcelOutput sanitizes the
\* items for the sheet.  Cell contents and header names are texts; the values
\* of an item are JavaScript values: a string, a number, null or undefined.
\* ------------------------------------------------------------------------
\* most columns of a table of the model
MaxColumns == 4

\* a JavaScript string
StringValue(text) == [text |-> text]

\* a JavaScript number; numbers are held in hundredths
NumberValue(n) == [number |-> n]

Null == [null |-> TRUE]

\* typeof value === 'string'
IsString(value) == "text" \in DOMAIN value

\* typeof value === 'number'
IsNumber(value) == "number" \in DOMAIN value

\* the whole number n, in hundredths
Whole(n) == 100 * n

\* JavaScript parseFloat(s): leading blanks, an optional sign, then the
\* longest prefix made of digits, an optional point and digits; NaN when that
\* prefix has no digit.  The texts of the model have at most two digits after
\* the point, and neither an exponent nor "Infinity".
ParseFloat(s) ==
  LET from == SkipBlanks(s, 1)
      neg  == from <= Len(s) /\ s[from] = "-"
      pos  == from <= Len(s) /\ s[from] = "+"
      j    == IF neg \/ pos THEN from + 1 ELSE from
      n    == DigitRun(s, j)
      dot  == j + n <= Len(s) /\ s[j + n] = "."
      m    == IF dot THEN DigitRun(s, j + n + 1) ELSE 0
      frac == IF m = 0 THEN 0
              ELSE IF m = 1 THEN 10 * DigitsValue(s, j + n + 1, 1)
              ELSE DigitsValue(s, j + n + 1, 2)
  IN  IF n = 0 /\ m = 0 THEN NaN
      ELSE [isNaN |-> FALSE,
            val   |-> (IF neg THEN -1 ELSE 1) * (Whole(DigitsValue(s, j, n)) + frac)]

\* the decimal digits of the natural number n
RECURSIVE NatText(_)
NatText(n) ==
  IF n < 10 THEN <<DigitChars[n + 1]>>
  ELSE NatText(n \div 10) \o <<DigitChars[(n % 10) + 1]>>

\* String(x) of the number x (held in hundredths)
NumberText(x) ==
  LET abs  == IF x < 0 THEN -x ELSE x
      frac == abs % 100
  IN  (IF x < 0 THEN <<"-">> ELSE << >>)
      \o NatText(abs \div 100)
      \o (IF frac = 0 THEN << >>
          ELSE IF frac % 10 = 0 THEN <<".", DigitChars[(frac \div 10) + 1]>>
          ELSE <<".", DigitChars[(frac \div 10) + 1], DigitChars[(frac % 10) + 1]>>)

\* String(value) of a string or a number
ToText(value) == IF IsString(value) THEN value.text ELSE NumberText(value.number)

\* JavaScript x + y of strings and numbers: the sum of two numbers, and the
\* concatenation of the two texts when either is a string
Plus(x, y) ==
  IF IsNumber(x) /\ IsNumber(y) THEN NumberValue(x.number + y.number)
  ELSE StringValue(ToText(x) \o ToText(y))

\* value is truthy: undefined, null, 0 and '' are not
IsTruthy(value) ==
  /\ value # Undefined
  /\ value # Null
  /\ (IsNumber(value) => value.number # 0)
  /\ (IsString(value) => value.text # << >>)

\* s.toLowerCase()
ToLowerCase(s) == [k \in 1..Len(s) |-> ToLower(s[k])]

\* s.trim(): s without its leading and trailing blanks
RECURSIVE TrimEnd(_)
TrimEnd(s) ==
  IF s # << >> /\ s[Len(s)] = " " THEN TrimEnd(SubSeq(s, 1, Len(s) - 1)) ELSE s

Trim(s) == TrimEnd(SubSeq(s, SkipBlanks(s, 1), Len(s)))

\* ------------------------------------------------------------------------
\* extractTableData (lines 406-422)
\* ------------------------------------------------------------------------
\* the comparator of line 411 is negative: a sorts before b
SortsBefore(x, y) ==
  \/ x.rowIndex < y.rowIndex
  \/ x.rowIndex = y.rowIndex /\ x.columnIndex < y.columnIndex

\* cell put into a sorted list, after the cells it does not sort before
RECURSIVE InsertCell(_, _)
InsertCell(cell, sorted) ==
  IF sorted = << >> THEN <<cell>>
  ELSE IF SortsBefore(cell, Head(sorted)) THEN <<cell>> \o sorted
  ELSE <<Head(sorted)>> \o InsertCell(cell, Tail(sorted))

\* table.cells.sort(...): by rowIndex, then by columnIndex (stable)
RECURSIVE SortCells(_)
SortCells(cells) ==
  IF cells = << >> THEN << >>
  ELSE InsertCell(cells[Len(cells)], SortCells(SubSeq(cells, 1, Len(cells) - 1)))

\* the forEach of lines 412-418: a new row is opened when the row index of
\* the cell differs from currentRow, and the content goes to the last row
RECURSIVE PushCells(_, _, _)
PushCells(cells, rows, currentRow) ==
  IF cells = << >> THEN rows
  ELSE LET cell   == Head(cells)
           opened == IF cell.rowIndex # currentRow THEN Append(rows, << >>) ELSE rows
       IN  PushCells(Tail(cells),
                     [opened EXCEPT ![Len(opened)] = Append(@, cell.content)],
                     cell.rowIndex)

extractTableData(t) == PushCells(SortCells(t.cells), << >>, -1)

\* ------------------------------------------------------------------------
\* replaceImportHeaders (lines 425-451)
\* ------------------------------------------------------------------------
PU_QUANT == <<"p", "u", "_", "q", "u", "a", "n", "t">>

PU_PRICE == <<"p", "u", "_", "p", "r", "i", "c", "e">>

TOTAL == <<"t", "o", "t", "a", "l">>

PR_CODENUM == <<"p", "r", "_", "c", "o", "d", "e", "n", "u", "m">>

AMOUNT == <<"a", "m", "o", "u", "n", "t">>

\* ["order", "items", "quantity", "qty"]  (line 433)
QuantityHeaders ==
  { <<"o", "r", "d", "e", "r">>,
    <<"i", "t", "e", "m", "s">>,
    <<"q", "u", "a", "n", "t", "i", "t", "y">>,
    <<"q", "t", "y">> }

\* ["cost", "unit price", "price", "#"]  (line 434)
PriceHeaders ==
  { <<"c", "o", "s", "t">>,
    <<"u", "n", "i", "t", " ", "p", "r", "i", "c", "e">>,
    <<"p", "r", "i", "c", "e">>,
    <<"#">> }

\* variant: 'amount' is not among the names of the total
MapHeader_NoAmount(h) ==
  IF h \in QuantityHeaders THEN PU_QUANT
  ELSE IF h \in PriceHeaders THEN PU_PRICE
  ELSE IF h = TOTAL THEN TOTAL
  ELSE h

\* lines 432-437: the name given to the lowercased header h
MapHeader(h) ==
  IF h \in QuantityHeaders THEN PU_QUANT
  ELSE IF h \in PriceHeaders THEN PU_PRICE
  ELSE IF h = AMOUNT \/ h = TOTAL THEN TOTAL
  ELSE h

\* /P\d{2}-\d{3}-\d{3}/ matches s at index i
PartNumberAt(s, at) ==
  /\ at + 10 <= Len(s)
  /\ s[at] = "P"
  /\ IsDigit(s[at + 1]) /\ IsDigit(s[at + 2])
  /\ s[at + 3] = "-"
  /\ IsDigit(s[at + 4]) /\ IsDigit(s[at + 5]) /\ IsDigit(s[at + 6])
  /\ s[at + 7] = "-"
  /\ IsDigit(s[at + 8]) /\ IsDigit(s[at + 9]) /\ IsDigit(s[at + 10])

\* partNumberPattern.test(s)
HasPartNumber(s) == \E at \in 1..Len(s) : PartNumberAt(s, at)

\* lines 442-444: some row after the first has a part number in column k
\* (a row without that column gives '')
ColumnHasPartNumber(df, k) ==
  \E n \in 2..Len(df) : k <= Len(df[n]) /\ HasPartNumber(df[n][k])

\* lines 441-448: every column with a part number is renamed
MarkPartNumbers(df, headers) ==
  [k \in 1..Len(headers) |->
     IF ColumnHasPartNumber(df, k) THEN PR_CODENUM ELSE headers[k]]

replaceImportHeaders(df) ==
  IF Len(df) = 0 THEN df
  ELSE LET headers == [k \in 1..Len(df[1]) |-> MapHeader(ToLowerCase(df[1][k]))]
       IN  <<MarkPartNumbers(df, headers)>> \o Tail(df)

\* ------------------------------------------------------------------------
\* the line items and the total (lines 657-676)
\* ------------------------------------------------------------------------
\* lines 661-662: row[index] as a number when parseFloat reads one, and as
\* it is otherwise; undefined when the row has no such column
ItemValue(row, index) ==
  IF index > Len(row) THEN Undefined
  ELSE IF ParseFloat(row[index]).isNaN THEN StringValue(row[index])
  ELSE NumberValue(ParseFloat(row[index]).val)

\* lines 659-664: one key per header; of two columns with the same header the
\* later one is the value kept
BuildItem(headers, row) ==
  [key \in {headers[k] : k \in 1..Len(headers)} |->
     ItemValue(row, CHOOSE k \in 1..Len(headers) :
                      /\ headers[k] = key
                      /\ \A m \in (k + 1)..Len(headers) : headers[m] # key)]

\* lines 657-665: the first row is the headers, every other row is an item;
\* no row at all gives no item
BuildItems(processed) ==
  IF Len(processed) = 0 THEN << >>
  ELSE [n \in 1..(Len(processed) - 1) |-> BuildItem(processed[1], processed[n + 1])]

\* item.total || 0  (line 675)
TotalOperand(item) ==
  IF TOTAL \in DOMAIN item /\ IsTruthy(item[TOTAL]) THEN item[TOTAL]
  ELSE NumberValue(0)

\* items.reduce((sum, item) => sum + (item.total || 0), 0)  (line 675)
RECURSIVE ReduceTotal(_, _)
ReduceTotal(items, sum) ==
  IF items = << >> THEN sum
  ELSE ReduceTotal(Tail(items), Plus(sum, TotalOperand(Head(items))))

\* lines 669-677: the purchase order that analyzeDocument returns
PurchaseOrderReturn(items) ==
  [success |-> TRUE,
   data    |-> [items |-> items, total |-> ReduceTotal(items, NumberValue(0))]]

\* ------------------------------------------------------------------------
\* generateExcelOutput: the sanitized items (lines 714-721)
\* ------------------------------------------------------------------------
\* line 718: a string that is empty once trimmed becomes null, every other
\* value is kept as it is
SanitizeValue(value) ==
  IF IsString(value) /\ Trim(value.text) = << >> THEN Null ELSE value

\* variant: pr_codenum, pu_quant, pu_price and total are written whether the
\* item has them or not
SanitizeItem_FixedKeys(item) ==
  [key \in DOMAIN item \cup {PR_CODENUM, PU_QUANT, PU_PRICE, TOTAL} |->
     IF key \in DOMAIN item THEN SanitizeValue(item[key]) ELSE Null]

\* lines 715-720: the keys of the item, each with its sanitized value
SanitizeItem(item) == [key \in DOMAIN item |-> SanitizeValue(item[key])]

\* ------------------------------------------------------------------------
\* The tables the service can answer with
\* ------------------------------------------------------------------------
\* no cell at this place of the table
NoCell == <<"no cell">>

\* the columns a table is made of: the cell of the first row and the cells
\* of the rows below it
ColumnPool ==
  << <<  <<"O", "r", "d", "e", "r">>,
         <<"5">>,
         <<"0">>  >>,
     <<  <<"D", "e", "s", "c", "r", "i", "p", "t", "i", "o", "n">>,
         <<"W", "i", "d", "g", "e", "t">>,
         NoCell  >>,
     <<  <<"P", "r", "i", "c", "e">>,
         <<"$", "2", ".", "0", "0">>,
         <<"-", "3">>  >>,
     <<  <<"A", "m", "o", "u", "n", "t">>,
         <<"$", "1", "0", ".", "0", "0">>,
         <<"7">>  >>,
     <<  <<"q", "t", "y">>,
         <<"2">>,
         <<" ", "x", " ">>  >>,
     <<  <<"Q", "u", "a", "n", "t", "i", "t", "y">>,
         <<"3">>,
         <<" ">>  >>,
     <<  <<"P", "1", "2", "-", "3", "4", "5", "-", "6", "7", "8">>,
         <<"P", "0", "0", "-", "0", "0", "0", "-", "0", "0", "1">>,
         <<"2">>  >>  >>

\* a table has its first row alone, or one or two rows below it
RowCounts == 1..Len(ColumnPool[1])

\* the cell of row k of the column, when the table has it
CellAt(column, k, c) == [rowIndex |-> k - 1, columnIndex |-> c - 1, content |-> column[k]]

\* the cells of column c, from its first row down
RECURSIVE ColumnCells(_, _, _)
ColumnCells(column, c, rows) ==
  IF rows = 0 THEN << >>
  ELSE ColumnCells(column, c, rows - 1)
       \o (IF column[rows] = NoCell THEN << >> ELSE <<CellAt(column, rows, c)>>)

\* the cell list of a table, column after column: the service gives the
\* cells in no order the code relies on (it sorts them, line 411)
RECURSIVE CellList(_, _, _)
CellList(columns, c, rows) ==
  IF c = 0 THEN << >>
  ELSE CellList(columns, c - 1, rows) \o ColumnCells(columns[c], c, rows)

Tables ==
  { [cells |-> CellList(columns, Len(columns), rows)] :
      columns \in UNION {[1..n -> {ColumnPool[k] : k \in DOMAIN ColumnPool}] : n \in 0..MaxColumns},
      rows \in RowCounts }

\* a purchase-order analysis whose answer has one table
TableInit ==
  /\ files = << >>
  /\ multiPage = FALSE
  /\ config = "ok"
  /\ DriverInit
  /\ documentType = "purchase-order"
  /\ pc = "Attempting"
  /\ attempt = 0
  /\ lastError = Undefined
  /\ result = Undefined
  /\ currentDelay = 0
  /\ isAzureSuggestedDelay = FALSE
  /\ ret = Undefined
  /\ now = 0
  /\ wakeAt = 0
  /\ calls = 0
  /\ warns = 0
  /\ errors = 0
  /\ rawDelay = 0
  /\ delaySource = "none"
  /\ fails = 0
  /\ genericOnly = TRUE
  /\ table \in Tables
  /\ tablePc = "Received"
  /\ tableData = << >>
  /\ processedData = << >>
  /\ poResult = Undefined
  /\ sanitizedItems = << >>
  /\ NoInvoice

\* lines 565-573 and 652-677: the service resolves with the table and
\* analyzeDocument returns the purchase order made of it
TablesReturned ==
  /\ tablePc = "Received"
  /\ AttemptSucceeds([documents |-> 0, tables |-> 1])
  /\ tableData' = extractTableData(table)
  /\ processedData' = replaceImportHeaders(tableData')
  /\ poResult' = PurchaseOrderReturn(BuildItems(processedData'))
  /\ tablePc' = "Returned"
  /\ UNCHANGED <<driverVars, table, sanitizedItems>>

\* lines 711-721: generateExcelOutput is given the purchase order and
\* sanitizes its items for the sheet
ExcelGenerated ==
  /\ tablePc = "Returned"
  /\ documentType = "purchase-order"
  /\ sanitizedItems' = [n \in 1..Len(poResult.data.items) |->
                          SanitizeItem(poResult.data.items[n])]
  /\ tablePc' = "Exported"
  /\ UNCHANGED <<callVars, driverVars, table, tableData, processedData, poResult>>

TableNext ==
  \/ TablesReturned /\ UNCHANGED invoiceVars
  \/ ExcelGenerated /\ UNCHANGED invoiceVars

TableSpec == TableInit /\ [][TableNext]_vars

\* ------------------------------------------------------------------------
\* The fields of an invoice
\* (document-processor.ts, lines 484-550 and 644-651)
\* ------------------------------------------------------------------------
\* the elements of Items lists of the model
MaxItems == 1

\* object[key]: undefined when the object has no such property
Get(object, key) == IF key \in DOMAIN object THEN object[key] ELSE Undefined

\* value is null or undefined (the test of ?. and ??)
IsNullish(value) == value = Undefined \/ value = Null

\* the texts a currency field holds in the model: a JSON object with an
\* amount, and a text that is not JSON
AMOUNT_JSON ==
  <<"{", "\"", "a", "m", "o", "u", "n", "t", "\"", ":", "2", "0", "0", "}">>

NOT_JSON == <<"$", "2", "0", "0">>

\* JSON.parse(text) throws (line 502): over the texts of the model, unless
\* the text is the JSON object
JsonParseThrows(text) == text # AMOUNT_JSON

\* JSON.parse(text) (line 502), over the texts of the model
JsonParse(text) == [amount |-> NumberValue(Whole(200))]

\* lines 489-516: the value of a field, by field.type
getFieldValue(field) ==
  IF ~IsTruthy(field)
  THEN Undefined
  ELSE IF "type" \in DOMAIN field /\ field.type \in {"string", "date", "number"}
       THEN Get(field, "value")
       ELSE IF "type" \in DOMAIN field /\ field.type = "currency"
            THEN LET value == Get(field, "value")
                 IN  IF IsString(value)
                     THEN IF JsonParseThrows(value.text)
                          THEN Null
                          ELSE Get(JsonParse(value.text), "amount")
                     ELSE IF IsNullish(value)
                          THEN Undefined
                          ELSE Get(value, "amount")
            ELSE IF IsTruthy(Get(field, "content"))
                 THEN field.content
                 ELSE Undefined

\* the fields of InvoiceDetails (lines 518-529)
DetailNames ==
  {"InvoiceId", "InvoiceDate", "DueDate", "VendorName", "VendorAddress",
   "CustomerName", "CustomerAddress", "SubTotal", "TotalTax", "InvoiceTotal"}

\* itemField.type === 'object' && itemField.properties  (line 534)
IsItemField(itemField) ==
  /\ "type" \in DOMAIN itemField
  /\ itemField.type = "object"
  /\ IsTruthy(Get(itemField, "properties"))

\* getFieldValue(props.Quantity) ?? getFieldValue(props.OrderQuantity)  (line 539)
ItemQuantity(props) ==
  LET quantity == getFieldValue(Get(props, "Quantity"))
  IN  IF IsNullish(quantity)
      THEN getFieldValue(Get(props, "OrderQuantity"))
      ELSE quantity

\* lines 535-544: the item of an element of Items
InvoiceItem(props) ==
  [Description |-> getFieldValue(Get(props, "Description")),
   Quantity    |-> ItemQuantity(props),
   Unit        |-> getFieldValue(Get(props, "Unit")),
   UnitPrice   |-> getFieldValue(Get(props, "UnitPrice")),
   ProductCode |-> getFieldValue(Get(props, "ProductCode")),
   Amount      |-> getFieldValue(Get(props, "Amount"))]

\* lines 531-547: the items of fields.Items.values.  Array.isArray holds of
\* the property when it is present: in the model it is a list then
InvoiceItems(fields) ==
  IF IsTruthy(Get(fields, "Items")) /\ "values" \in DOMAIN fields.Items
  THEN LET found == SelectSeq(fields.Items.values, IsItemField)
       IN  [n \in 1..Len(found) |-> InvoiceItem(found[n].properties)]
  ELSE << >>

\* lines 484-550
extractInvoiceData(document) ==
  [details |-> [name \in DetailNames |-> getFieldValue(Get(document.fields, name))],
   items   |-> InvoiceItems(document.fields)]

\* lines 644-648: what analyzeDocument returns for an invoice with a document
InvoiceReturn(document) == [success |-> TRUE, data |-> extractInvoiceData(document)]

\* a text field with the text under value, under valueString, or under both
TextFields(text, other) ==
  { [type |-> "string", value |-> text, content |-> text],
    [kind |-> "string", value |-> text, content |-> text],
    [kind |-> "string", valueString |-> text, content |-> text],
    [type |-> "string", kind |-> "string", value |-> other, valueString |-> text,
     content |-> text] }

\* a number field with the number 2 under value or under valueNumber
NumberFields ==
  LET two  == NumberValue(Whole(2))
      text == StringValue(<<"2">>)
  IN  { [type |-> "number", value |-> two, content |-> text],
        [kind |-> "number", valueNumber |-> two, content |-> text] }

\* a currency field with the amount 200 under value, as an object or as a
\* text, under valueCurrency, or under both
CurrencyFields ==
  LET total == [amount |-> NumberValue(Whole(200)), symbol |-> StringValue(<<"$">>)]
      other == [amount |-> NumberValue(Whole(100)), symbol |-> StringValue(<<"$">>)]
      text  == StringValue(<<"$", "2", "0", "0", ".", "0", "0">>)
  IN  { [type |-> "currency", value |-> total, content |-> text],
        [type |-> "currency", value |-> StringValue(AMOUNT_JSON), content |-> text],
        [type |-> "currency", value |-> StringValue(NOT_JSON), content |-> text],
        [kind |-> "currency", valueCurrency |-> total, content |-> text],
        [type |-> "currency", kind |-> "currency", value |-> other,
         valueCurrency |-> total, content |-> text] }

\* an element of Items, its sub-fields under properties or under valueObject:
\* a description and a quantity, the quantity under Quantity or under
\* OrderQuantity
ItemFields ==
  LET descriptions == TextFields(StringValue(<<"I", "t", "e", "m", " ", "A">>),
                                 StringValue(<<"I", "t", "e", "m", " ", "B">>))
      properties ==
        { [Description |-> description, Quantity |-> quantity] :
            description \in descriptions, quantity \in NumberFields }
        \cup
        { [Description |-> description, OrderQuantity |-> quantity] :
            description \in descriptions, quantity \in NumberFields }
  IN  { [type |-> "object", properties |-> props] : props \in properties }
      \cup
      { [kind |-> "object", valueObject |-> props] : props \in properties }

\* the field Items, its at most MaxItems elements under values or under
\* valueArray
ItemsFields ==
  LET lists == UNION { [1..n -> ItemFields] : n \in 0..MaxItems }
  IN  { [type |-> "array", values |-> list] : list \in lists }
      \cup
      { [kind |-> "array", valueArray |-> list] : list \in lists }

\* the fields of a document: each of InvoiceId, InvoiceTotal and Items is
\* missing or has one of its shapes; no other field is present
FieldSets ==
  LET ids    == {[InvoiceId |-> id] :
                   id \in TextFields(StringValue(<<"I", "N", "V", "-", "1", "2", "3">>),
                                     StringValue(<<"I", "N", "V", "-", "0">>))}
                \cup {<< >>}
      totals == {[InvoiceTotal |-> total] : total \in CurrencyFields} \cup {<< >>}
      lists  == {[Items |-> items] : items \in ItemsFields} \cup {<< >>}
  IN  { id @@ total @@ items : id \in ids, total \in totals, items \in lists }

\* result.documents[0] of the model
InvoiceDocuments == { [docType |-> "invoice", fields |-> fields] : fields \in FieldSets }

\* an invoice analysis whose answer has one document
InvoiceInit ==
  /\ files = << >>
  /\ multiPage = FALSE
  /\ config = "ok"
  /\ DriverInit
  /\ NoTable
  /\ documentType = "invoice"
  /\ pc = "Attempting"
  /\ attempt = 0
  /\ lastError = Undefined
  /\ result = Undefined
  /\ currentDelay = 0
  /\ isAzureSuggestedDelay = FALSE
  /\ ret = Undefined
  /\ now = 0
  /\ wakeAt = 0
  /\ calls = 0
  /\ warns = 0
  /\ errors = 0
  /\ rawDelay = 0
  /\ delaySource = "none"
  /\ fails = 0
  /\ genericOnly = TRUE
  /\ invoiceDocument \in InvoiceDocuments
  /\ invoicePc = "Received"
  /\ invoiceResult = Undefined

\* lines 565-573 and 644-648: the service resolves with the document and
\* analyzeDocument returns the invoice data extracted from it
InvoiceReturned ==
  /\ invoicePc = "Received"
  /\ AttemptSucceeds([documents |-> 1, tables |-> 0])
  /\ invoiceResult' = InvoiceReturn(invoiceDocument)
  /\ invoicePc' = "Returned"
  /\ UNCHANGED <<driverVars, tableVars, invoiceDocument>>

InvoiceNext == InvoiceReturned

InvoiceSpec == InvoiceInit /\ [][InvoiceNext]_vars

\* ------------------------------------------------------------------------
\* Properties
\* ------------------------------------------------------------------------
\* the call has returned
Finished == pc \in {"Success", "TerminalFailure", "NoResult"}

\* C1: whatever the service answers, one call of the retry loop issues at
\* most MAX_RETRIES + 1 = 4 calls to the service, and exactly 4 when every
\* attempt fails (the call has returned and no attempt produced a result).
C1_AtMostFourCalls ==
  /\ MAX_RETRIES + 1 = 4
  /\ calls <= MAX_RETRIES + 1
  /\ (Finished /\ result = Undefined => calls = MAX_RETRIES + 1)

\* four attempts were made and all of them failed
C1_Witness == pc = "TerminalFailure" /\ calls = 4 /\ fails = 4

\* C2, the states: Attempting(k) with k in 0..MAX_RETRIES, Delay, Success and
\* TerminalFailure; k counts the failed attempts
C2_States ==
  /\ pc \in {"Attempting", "Delay", "Success", "TerminalFailure"}
  /\ attempt \in 0..MAX_RETRIES
  /\ (pc = "Attempting" => fails = attempt /\ calls = attempt)
  /\ (pc = "Delay" => fails = attempt + 1 /\ calls = attempt + 1)

\* C2, the transitions
C2_Step ==
  /\ (pc = "Attempting" => pc' \in {"Success", "Delay", "TerminalFailure"})
  /\ (pc = "Delay" => pc' \in {"Delay", "Attempting"})
  /\ (calls' # calls => pc = "Attempting" /\ calls' = calls + 1)
  /\ (pc' = "Delay" /\ pc # "Delay" =>
        /\ fails' = fails + 1
        /\ attempt' = attempt
        /\ wakeAt' = now + Max(currentDelay', 0))
  /\ (attempt' # attempt =>
        /\ pc = "Delay" /\ pc' = "Attempting"
        /\ attempt' = attempt + 1
        /\ now >= wakeAt)
  /\ (pc = "Delay" /\ pc' = "Delay" => now' > now /\ now' <= wakeAt /\ wakeAt' = wakeAt)
  /\ (pc' = "TerminalFailure" /\ pc # "TerminalFailure" =>
        fails' = fails + 1 /\ attempt = MAX_RETRIES)
  /\ (pc \in {"Success", "TerminalFailure"} => pc' = pc /\ calls' = calls)

\* C2: the retry loop is the state machine Attempting(k) -> Success |
\* TransientFailure -> Delay -> Attempting(k+1) | TerminalFailure that starts
\* at Attempting(0): the attempt index grows by exactly 1 per failed attempt,
\* attempt k+1 does not start before the delay computed after attempt k has
\* elapsed, TerminalFailure is entered only from a failure at k = MAX_RETRIES,
\* and no attempt is issued after Success or TerminalFailure.
C2_RetryStateMachine ==
  /\ pc = "Attempting" /\ attempt = 0
  /\ []C2_States
  /\ [][C2_Step]_vars

\* the third attempt is running: two delays were computed and have elapsed
C2_Witness == pc = "Attempting" /\ attempt = 2 /\ now >= 9000

\* C3: every delay computed before a retry satisfies 0 <= delay <= 30000 ms,
\* whatever the shape of the failure (status code, retryAfterInMs value,
\* retry-after header value, message).
C3_DelayBounds ==
  pc = "Delay" => 0 <= currentDelay /\ currentDelay <= MAX_DELAY_MS

\* C4: when the failure of attempt k carries no service-suggested delay, the
\* delay before attempt k+1 is min(3000 * 2^k, 30000) ms: 3000, 6000, 12000
\* for k = 0, 1, 2.
C4_BackoffWithoutHint ==
  pc = "Delay" /\ CarriesNoHint(lastError) =>
    /\ currentDelay = Min(3000 * (2 ^ attempt), 30000)
    /\ currentDelay = <<3000, 6000, 12000>>[attempt + 1]

\* the third attempt failed without a hint and the call waits 12000 ms
C4_Witness ==
  pc = "Delay" /\ CarriesNoHint(lastError) /\ attempt = 2 /\ currentDelay = 12000

\* the source the priority order of the claim selects for a failure: the
\* first of the three hints that is present, else the backoff
C5_FirstPresent(error) ==
  IF error.hasRetryAfterInMs THEN "retryAfterInMs"
  ELSE IF error.retryAfterHeader # << >> THEN "header"
  ELSE IF MessageMatch(error.message) # << >> THEN "message"
  ELSE "backoff"

\* C5 as stated: the delay source is the first present of retryAfterInMs,
\* the retry-after header, 'retry after N seconds' in the message, and the
\* exponential backoff; a lower source is used only when every higher one
\* is absent.
C5_PriorityAsStated ==
  pc = "Delay" => delaySource = C5_FirstPresent(lastError)

\* C5, amended: for a failure with status code 429 the source is
\* retryAfterInMs if it is a number, else the retry-after header if its
\* value parses as an integer, else N * 1000 ms from 'retry after N seconds'
\* in the message (letters compared without case), else the exponential
\* backoff; for any other status code the exponential backoff is used
\* whatever hints the failure carries.
C5_PriorityFor429 ==
  pc = "Delay" =>
    /\ IF lastError.statusCode = 429
       THEN IF lastError.hasRetryAfterInMs
            THEN delaySource = "retryAfterInMs"
            ELSE IF /\ lastError.retryAfterHeader # << >>
                    /\ ~ParseInt(lastError.retryAfterHeader).isNaN
                 THEN delaySource = "header"
                 ELSE IF MessageMatch(lastError.message) # << >>
                      THEN /\ delaySource = "message"
                           /\ rawDelay = 1000 * ParseInt(MessageMatch(lastError.message)).val
                           /\ (lastError.message = MSG_RETRY12 => rawDelay = 12000)
                      ELSE delaySource = "backoff"
       ELSE delaySource = "backoff"
    /\ isAzureSuggestedDelay = (delaySource # "backoff")
    /\ (delaySource = "backoff" => rawDelay = 3000 * (2 ^ attempt))
    /\ currentDelay = Min(rawDelay, 30000)

\* a 429 failure without retryAfterInMs and with an unusable header: the
\* delay comes from the message
C5_Witness ==
  /\ pc = "Delay"
  /\ delaySource = "message"
  /\ lastError.retryAfterHeader = <<"a", "b", "c">>
  /\ currentDelay = 12000

\* C6 as stated: a failed attempt that carries retryAfterInMs is followed by
\* that delay verbatim (up to the 30000 ms cap), whatever the status code and
\* whatever the value.
C6_VerbatimAnyStatus ==
  pc = "Delay" /\ lastError.hasRetryAfterInMs =>
    currentDelay = Min(lastError.retryAfterInMs, 30000)

\* C6, amended: a failed attempt with status code 429 that carries a numeric
\* retryAfterInMs is followed by that delay verbatim (up to the 30000 ms cap),
\* whatever the value.
C6_VerbatimFor429 ==
  pc = "Delay" /\ lastError.hasRetryAfterInMs /\ lastError.statusCode = 429 =>
    /\ delaySource = "retryAfterInMs"
    /\ rawDelay = lastError.retryAfterInMs
    /\ currentDelay = Min(lastError.retryAfterInMs, 30000)

\* a 429 failure suggests 0 ms and the call waits 0 ms
C6_Witness ==
  /\ pc = "Delay"
  /\ lastError.statusCode = 429
  /\ lastError.hasRetryAfterInMs
  /\ lastError.retryAfterInMs = 0
  /\ currentDelay = 0

\* C7 as stated: a delay taken from the retry-after header with numeric value
\* v is, before the cap, v ms if v > 1000 and v * 1000 ms otherwise.
C7_HeaderUnitHeuristic ==
  pc = "Delay" /\ delaySource = "header" =>
    LET v == ParseInt(lastError.retryAfterHeader).val
    IN  rawDelay = IF v > 1000 THEN v ELSE v * 1000

\* C7, amended: a delay taken from the retry-after header with numeric value
\* v is, before the cap, v * 1000 ms for every v.
C7_HeaderInSeconds ==
  pc = "Delay" /\ delaySource = "header" =>
    /\ rawDelay = ParseInt(lastError.retryAfterHeader).val * 1000
    /\ (lastError.retryAfterHeader = <<"2">> => rawDelay = 2000)
    /\ (lastError.retryAfterHeader = <<"2", "0", "0", "0">> => rawDelay = 2000000)

\* the header says 2000: the delay before the cap is 2000000 ms
C7_Witness ==
  /\ pc = "Delay"
  /\ delaySource = "header"
  /\ lastError.retryAfterHeader = <<"2", "0", "0", "0">>
  /\ rawDelay = 2000000
  /\ currentDelay = 30000

\* C8: when the final (4th) attempt fails, the caller receives a failed
\* result that carries the last error's message and, when the last error has
\* one, its status code.
C8_TerminalResultCarriesStatus ==
  pc = "TerminalFailure" =>
    /\ ret.success = FALSE
    /\ ret.error = lastError.message
    /\ (lastError.statusCode # NoStatus =>
          /\ "statusCode" \in DOMAIN ret
          /\ ret.statusCode = lastError.statusCode)

C10_HasData(out) ==
  IF documentType = "invoice" THEN out.documents > 0 ELSE out.tables > 0

\* C10: a call whose first two attempts fail with generic errors (no
\* suggested delay) and whose third attempt succeeds makes exactly 3 service
\* calls, emits exactly 2 warnings, is suspended for 3000 + 6000 = 9000 ms in
\* total, and ends with the third attempt's output as its successful result.
C10_ScenarioB ==
  pc = "Success" /\ fails = 2 /\ genericOnly =>
    /\ calls = 3
    /\ warns = 2
    /\ errors = 0
    /\ now = 9000
    /\ result \in Outputs
    /\ (C10_HasData(result) => ret.success /\ ret.data.output = result)

\* two generic failures, then an output with data: success after 9000 ms
C10_Witness ==
  /\ pc = "Success" /\ fails = 2 /\ genericOnly
  /\ calls = 3 /\ now = 9000
  /\ ret.success

\* C11: a failure is never surfaced while retries remain.  As long as the
\* call is attempting or delayed it has returned nothing, and it returns a
\* failed result caused by a service failure only after MAX_RETRIES + 1
\* attempts have failed; a failed result returned after fewer failures is
\* the answer to an output without data, not a service failure.
C11_NoEarlyFailure ==
  /\ (pc \in {"Attempting", "Delay"} => ret = Undefined)
  /\ (pc = "TerminalFailure" =>
        /\ fails = MAX_RETRIES + 1
        /\ calls = MAX_RETRIES + 1
        /\ ret = FailureReturn(lastError))
  /\ (ret # Undefined /\ fails < MAX_RETRIES + 1 /\ ~ret.success =>
        /\ pc = "Success"
        /\ result \in Outputs
        /\ ret.error \in {NO_INVOICE_DATA, NO_TABLE_DATA})

\* the fourth failure in a row has been returned as the failed result
C11_Witness ==
  /\ pc = "TerminalFailure"
  /\ fails = MAX_RETRIES + 1
  /\ ret = FailureReturn(lastError)

\* ------------------------------------------------------------------------
\* Properties of the run
\* ------------------------------------------------------------------------
\* a call of analyzeDocument begins with this step
C12_CallBegins ==
  /\ runPc' \in {"FirstPass", "SecondPass"}
  /\ runPc \notin {"FirstPass", "SecondPass"}

\* within a call the attempt counter counts the failures of this call only,
\* and a call gives up only after its own MAX_RETRIES + 1 attempts
C12_PerCall ==
  /\ (pc = "Attempting" => attempt = fails /\ attempt <= MAX_RETRIES)
  /\ (pc = "Delay" => attempt + 1 = fails /\ attempt < MAX_RETRIES)
  /\ (pc = "TerminalFailure" => calls = MAX_RETRIES + 1 /\ fails = MAX_RETRIES + 1)

\* C12: the retry state is confined to one call.  Every call of
\* analyzeDocument, for every page and in either pass, begins with the attempt
\* counter at 0 and without a last error, and the failures of earlier calls
\* never reduce the attempts a later call has: a call that gives up has made
\* MAX_RETRIES + 1 attempts of its own.
C12_RetryStateConfined ==
  /\ []C12_PerCall
  /\ [][C12_CallBegins =>
          /\ attempt' = 0
          /\ lastError' = Undefined
          /\ calls' = 0
          /\ fails' = 0]_vars

\* the second-pass call of a page whose first pass failed, itself giving up
\* after four attempts of its own
C12_Witness ==
  /\ runPc = "SecondPass"
  /\ pc = "TerminalFailure"
  /\ calls = MAX_RETRIES + 1
  /\ history[CurrentPage] = <<FALSE, FALSE>>
  /\ processedPages >= 2

\* a service request is issued with this step
C13_RequestIssued == inflight' > inflight

\* a call of analyzeDocument begins with this step
C13_CallBegins ==
  /\ runPc' \in {"FirstPass", "SecondPass"}
  /\ runPc \notin {"FirstPass", "SecondPass"}

\* C13: within a run at most one analysis request is outstanding at any
\* time.  A request is issued only when no other request is in flight and no
\* timer is pending, neither the retry delay of a call nor the run's own
\* inter-page or second-pass delay; and a call of analyzeDocument begins only
\* when no other call is attempting or delayed.
C13_OneRequestAtATime ==
  /\ [](inflight \in {0, 1})
  /\ [](inflight = 1 => pc = "Attempting" /\ runPc \in {"FirstPass", "SecondPass"})
  /\ [][C13_RequestIssued =>
          /\ inflight = 0
          /\ sleepLeft = 0
          /\ pc # "Attempting"
          /\ (pc = "Delay" => now >= wakeAt)]_vars
  /\ [][C13_CallBegins =>
          /\ pc \notin {"Attempting", "Delay"}
          /\ sleepLeft = 0]_vars

\* a retried request of a second-pass call is the one request in flight
C13_Witness ==
  /\ inflight = 1
  /\ runPc = "SecondPass"
  /\ attempt >= 1
  /\ processedPages >= 2

\* C14: once any attempt of the run has been rejected with status 429, the
\* inter-page delay waited before every later page is escalated: it is at
\* least the doubled initial delay and at most MaxInterRequestDelay.
C14_EscalatedAfter429 ==
  saw429 /\ runPc = "Pacing" =>
    /\ interRequestDelay >= Escalate(InitialInterRequestDelay)
    /\ interRequestDelay <= MaxInterRequestDelay
    /\ sleepLeft \in {0, interRequestDelay}

\* the first pass is over: every page has been analysed once
C15_FirstPassOver == \A page \in Pages : Len(history[page]) >= 1

C15_Passes ==
  /\ \A page \in Pages :
       /\ Len(history[page]) <= 2
       /\ (Len(history[page]) >= 1 /\ history[page][1] => Len(history[page]) = 1)
       /\ (Len(history[page]) = 2 => C15_FirstPassOver)
  /\ (runPc \in {"RetryWait", "SecondPass", "ExportSecond"} =>
        /\ C15_FirstPassOver
        /\ failedPages[r].page \in {page \in Pages : ~history[page][1]})
  /\ (runPc \in {"RetryWait", "SecondPass", "ExportSecond", "ExportAggregate", "Done"} =>
        \A page \in Pages :
          ~history[page][1] => \E j \in 1..Len(failedPages) : failedPages[j].page = page)
  /\ (runPc = "Done" =>
        \A page \in Pages : ~history[page][1] => Len(history[page]) = 2)

\* C15: the two-tier retry.  Every page whose first-pass analysis fails is
\* queued and, in a run that completes, analysed exactly once more; no
\* second-pass analysis starts before every page of every file has finished
\* its first pass; each second-pass analysis is preceded by the fixed delay
\* retryDelay; and a page whose first pass succeeded is never analysed again.
C15_TwoTierRetry ==
  /\ []C15_Passes
  /\ [][runPc' = "SecondPass" /\ runPc # "SecondPass" =>
          /\ runPc = "RetryWait"
          /\ waited = retryDelay
          /\ sleepLeft = 0
          /\ C15_FirstPassOver
          /\ Len(history[failedPages[r].page]) = 1]_vars

\* a completed run of three pages: one succeeded at once, one succeeded in
\* the second pass and one failed both passes
C15_Witness ==
  /\ runPc = "Done"
  /\ \E x, y, z \in Pages :
       /\ history[x] = <<TRUE>>
       /\ history[y] = <<FALSE, TRUE>>
       /\ history[z] = <<FALSE, FALSE>>

\* the result of a first-pass call is a failure and is about to be handled
C16_PageFailed == runPc = "FirstPass" /\ AnalysisReturned /\ ~ret.success

\* C16: the terminal failure of one page does not abort the others.  When a
\* first-pass call returns a failure the run stays in 'processing' and goes on
\* to the next page, the next file or the second pass; and a run that ends
\* without an unexpected exception has analysed every page of every file at
\* least once.
C16_FailureDoesNotAbort ==
  /\ [](runPc = "Done" => \A page \in Pages : Len(history[page]) >= 1)
  /\ [](runPc = "Aborted" => abortCause \in {"splitPdf", "generateExcelOutput"})
  /\ [][C16_PageFailed =>
          /\ runPc' \in {"Pacing", "Splitting", "RetryWait"}
          /\ status' = "processing"
          /\ abortCause' = "none"]_vars

\* a completed run whose first page failed both passes and whose later page
\* was analysed all the same, and succeeded
C16_Witness ==
  /\ runPc = "Done"
  /\ history[<<1, 1>>] = <<FALSE, FALSE>>
  /\ \E page \in Pages \ {<<1, 1>>} : history[page] = <<TRUE>>

\* the pages that failed both passes
C17_PermanentlyFailed == {page \in Pages : history[page] = <<FALSE, FALSE>>}

\* C17: the summary of a completed run.  The final status is 'success' if
\* and only if no page failed permanently, and 'error' otherwise; the count
\* the summary gives is the number of pages that failed both passes; and each
\* such page has been reported once, with its name and a reason.
C17_RunSummary ==
  runPc = "Done" =>
    /\ status \in {"success", "error"}
    /\ (status = "success" <=> C17_PermanentlyFailed = {})
    /\ finalErrorCount = Cardinality(C17_PermanentlyFailed)
    /\ Len(toasts) = finalErrorCount
    /\ {toasts[j].page : j \in 1..Len(toasts)} = C17_PermanentlyFailed
    /\ \A j \in 1..Len(toasts) : Truthy(toasts[j].reason)

\* a completed run with one page exported and two permanent failures
C17_Witness ==
  /\ runPc = "Done"
  /\ status = "error"
  /\ finalErrorCount = 2
  /\ Len(toasts) = 2
  /\ Len(downloads) = 1

\* some analysis of the page has succeeded
C18_Yielded(page) == \E k \in 1..Len(history[page]) : history[page][k]

\* the pages whose data a spreadsheet holds
C18_PagesOf(export) == {export.pages[k] : k \in 1..Len(export.pages)}

\* the pages of all spreadsheets downloaded so far
C18_Exported == UNION {C18_PagesOf(downloads[j]) : j \in 1..Len(downloads)}

\* C18: no spreadsheet for a page that never yielded data.
\* generateExcelOutput is invoked for a page only after an analysis of that
\* page has succeeded, every downloaded spreadsheet holds pages with a
\* successful analysis only, and in a completed run a page whose every
\* analysis failed is in the permanent-failure report and in no spreadsheet.
C18_ExportOnlyAfterSuccess ==
  /\ (runPc \in {"ExportFirst", "ExportSecond", "ExportAggregate"} =>
        \A page \in C18_PagesOf(ExportRequest) : C18_Yielded(page))
  /\ \A page \in C18_Exported : C18_Yielded(page)
  /\ (runPc = "Done" =>
        \A page \in Pages :
          ~C18_Yielded(page) =>
            /\ page \notin C18_Exported
            /\ \E j \in 1..Len(toasts) : toasts[j].page = page)

\* a completed run that exported a page which succeeded only in the second
\* pass and reported, without exporting it, a page that never succeeded
C18_Witness ==
  /\ runPc = "Done"
  /\ \E x, y \in Pages :
       /\ history[x] = <<FALSE, TRUE>>
       /\ x \in C18_Exported
       /\ history[y] = <<FALSE, FALSE>>
       /\ y \notin C18_Exported
       /\ \E j \in 1..Len(toasts) : toasts[j].page = y

\* how a run stands and how it has ended
C19_Ends ==
  /\ (status = "processing" <=> runPc \notin {"Idle", "Done", "Aborted"})
  /\ (runPc = "Idle" => status = "idle")
  /\ (runPc = "Done" =>
        /\ abortCause = "none"
        /\ \/ status = "success" /\ finalErrorCount = 0
           \/ status = "error" /\ finalErrorCount > 0)
  /\ (runPc = "Aborted" => status = "error" /\ abortCause # "none")

\* C19: every run that has started eventually leaves 'processing', and it
\* ends in exactly one of three ways: completed without a permanent failure
\* ('success'), completed with permanent failures ('error' with a positive
\* count), or aborted by an unexpected exception ('error').  After such an
\* exception no analysis is started, no request is issued and the status
\* stays 'error'.
C19_RunEnds ==
  /\ []C19_Ends
  /\ [][runPc = "Aborted" =>
          /\ status' = "error"
          /\ inflight' = inflight
          /\ history' = history
          /\ pc' = pc]_vars
  /\ [][(status # "processing" /\ status # "idle") => status' = status]_vars
  /\ (status = "processing" ~> status \in {"success", "error"})

\* a run aborted by an exception of generateExcelOutput while a failed page
\* was still waiting for its second pass
C19_Witness ==
  /\ runPc = "Aborted"
  /\ status = "error"
  /\ abortCause = "generateExcelOutput"
  /\ failedPages # << >>
  /\ inflight = 0

\* a failed result as the caller is to see it: success = false and a message
C20_IsRequestFailure(x) ==
  /\ "success" \in DOMAIN x
  /\ ~x.success
  /\ "error" \in DOMAIN x
  /\ Truthy(x.error)

\* C20: an absent or invalid endpoint or key surfaces as a request failure.
\* With the configuration absent every call of analyzeDocument returns, before
\* any request is made, success = false with the message of the error the
\* client construction threw; with a configuration the service refuses every
\* call returns success = false with the message of the last rejection.  The
\* call never throws to handleProcess: the page is queued or reported as a
\* failed page and the run goes on.
C20_ConfigFailureSurfaces ==
  /\ [](config = "missing" =>
          /\ pc \in {"NotCalled", "ConfigFailure"}
          /\ inflight = 0
          /\ (pc = "ConfigFailure" =>
                calls = 0 /\ C20_IsRequestFailure(ret) /\ ret.error = ConfigError.message))
  /\ [](config = "invalid" /\ AnalysisReturned =>
          /\ pc = "TerminalFailure"
          /\ ~ret.success
          /\ "error" \in DOMAIN ret
          /\ ret.error = lastError.message)
  /\ [](config # "ok" =>
          /\ downloads = << >>
          /\ abortCause \in {"none", "splitPdf"}
          /\ (runPc = "Done" => finalErrorCount = Cardinality(Pages)))
  /\ [][config # "ok" /\ AnalysisReturned /\ runPc \in {"FirstPass", "SecondPass"} =>
          /\ runPc' \in {"Pacing", "Splitting", "RetryWait", "Done"}
          /\ Len(failedPages') + Len(toasts') = Len(failedPages) + Len(toasts) + 1]_vars

\* without a configuration a first-pass call has returned the failure with
\* the constructor's message, and no request was made
C20_Witness ==
  /\ config = "missing"
  /\ runPc = "FirstPass"
  /\ pc = "ConfigFailure"
  /\ calls = 0
  /\ ret = [success |-> FALSE, error |-> MSG_CONFIG]

\* ------------------------------------------------------------------------
\* Properties of the tables
\* ------------------------------------------------------------------------
\* analyzeDocument has returned the purchase order made of the table
TableReturned == tablePc \in {"Returned", "Exported"}

\* the largest row index and the largest column index of a cell list
C21_MaxRowIndex(cells) ==
  CHOOSE n \in {cells[k].rowIndex : k \in DOMAIN cells} :
    \A k \in DOMAIN cells : cells[k].rowIndex <= n

C21_MaxColumnIndex(cells) ==
  CHOOSE n \in {cells[k].columnIndex : k \in DOMAIN cells} :
    \A k \in DOMAIN cells : cells[k].columnIndex <= n

\* the content of the cell of row n and column c, '' when there is none
C21_ContentAt(cells, n, c) ==
  IF \E k \in DOMAIN cells : cells[k].rowIndex = n /\ cells[k].columnIndex = c
  THEN cells[CHOOSE k \in DOMAIN cells :
               cells[k].rowIndex = n /\ cells[k].columnIndex = c].content
  ELSE << >>

\* the grid of (max rowIndex + 1) rows of (max columnIndex + 1) strings
C21_DenseGrid(cells) ==
  [n \in 1..(C21_MaxRowIndex(cells) + 1) |->
     [c \in 1..(C21_MaxColumnIndex(cells) + 1) |-> C21_ContentAt(cells, n - 1, c - 1)]]

\* C21: for every cell list that is not empty, the grid extraction returns a
\* rectangular grid of exactly (max rowIndex + 1) rows and (max columnIndex
\* + 1) columns in which position (r, c) holds the content of the input cell
\* of that position, or '' when the input has no such cell: a list with cells
\* removed still gives the full grid, never a jagged one or one with the gap
\* closed.
C21_RectangularGrid ==
  TableReturned /\ table.cells # << >> =>
    tableData = C21_DenseGrid(table.cells)

\* C22: a table whose cell list is empty is a normal outcome: the extraction
\* returns the empty grid, the 'table has no cells' warning is emitted (at
\* least one console.warn), the table contributes no line item, and the
\* analysis still returns success.
C22_EmptyTableIsNormal ==
  TableReturned /\ table.cells = << >> =>
    /\ tableData = << >>
    /\ warns >= 1
    /\ poResult.data.items = << >>
    /\ poResult.success

\* the columns of the processed table that are named pr_codenum
C23_PartNumberColumns ==
  {k \in 1..Len(processedData[1]) : processedData[1][k] = PR_CODENUM}

\* the columns whose data holds a part number P\d{2}-\d{3}-\d{3}
C23_MatchingColumns ==
  {k \in 1..Len(tableData[1]) : ColumnHasPartNumber(tableData, k)}

\* C23: at most one column of a table is assigned pr_codenum, and when the
\* data of some column matches the part-number pattern, the leftmost such
\* column is the one that receives it.
C23_OnePartNumberColumn ==
  TableReturned /\ tableData # << >> =>
    /\ Cardinality(C23_PartNumberColumns) <= 1
    /\ \A k \in C23_MatchingColumns :
         (\A m \in C23_MatchingColumns : k <= m) => k \in C23_PartNumberColumns

\* the vocabulary of header keywords: order, items, quantity, qty, cost,
\* unit price, price, #, amount, total, unit, each, ea
C24_HeaderKeywords ==
  QuantityHeaders \cup PriceHeaders \cup
  { AMOUNT, TOTAL, <<"u", "n", "i", "t">>, <<"e", "a", "c", "h">>, <<"e", "a">> }

\* the text s contains the keyword, letters compared without case
C24_Contains(s, keyword) ==
  \E at \in 1..Len(s) :
    /\ at + Len(keyword) - 1 <= Len(s)
    /\ SubSeq(ToLowerCase(s), at, at + Len(keyword) - 1) = keyword

\* s is n digits, n >= 1, from index at to its end
C24_DigitsToEnd(s, at) == at <= Len(s) /\ DigitRun(s, at) = Len(s) - at + 1

\* s is a number with an optional decimal part, from index at to its end
C24_NumberToEnd(s, at) ==
  \/ C24_DigitsToEnd(s, at)
  \/ /\ DigitRun(s, at) >= 1
     /\ at + DigitRun(s, at) <= Len(s)
     /\ s[at + DigitRun(s, at)] = "."
     /\ C24_DigitsToEnd(s, at + DigitRun(s, at) + 1)

\* the cell matches a data-shaped pattern: a part number, a pure integer, a
\* decimal number or a dollar amount
C24_DataCell(s) ==
  \/ HasPartNumber(s)
  \/ C24_NumberToEnd(s, 1)
  \/ (s # << >> /\ s[1] = "$" /\ C24_NumberToEnd(s, 2))

\* the row is data-shaped: no cell contains a header keyword, or at least
\* ceil(rowLength / 2) of its cells (and at least one) match a data pattern
C24_DataShaped(row) ==
  \/ \A k \in 1..Len(row) : \A keyword \in C24_HeaderKeywords :
       ~C24_Contains(row[k], keyword)
  \/ Cardinality({k \in 1..Len(row) : C24_DataCell(row[k])})
       >= Max(1, (Len(row) + 1) \div 2)

\* the values of an item
C24_ValuesOf(item) == {item[key] : key \in DOMAIN item}

\* C24: a grid whose first row is data-shaped (no header keyword, or at least
\* ceil(rowLength / 2) cells that match data patterns), such as
\* ['P12-345-678', '2', '$10.00', '$20.00'], is classified headerless: the
\* first row is kept as a data row and yields a line item (every row of the
\* grid is an item, and the first item is made of the cells of the first row).
C24_HeaderlessFirstRow ==
  TableReturned /\ tableData # << >> /\ C24_DataShaped(tableData[1]) =>
    /\ Len(poResult.data.items) = Len(tableData)
    /\ \A k \in 1..Len(tableData[1]) :
         ItemValue(tableData[1], k) \in C24_ValuesOf(poResult.data.items[1])

C25_Description == <<"d", "e", "s", "c", "r", "i", "p", "t", "i", "o", "n">>

C25_Widget == <<"W", "i", "d", "g", "e", "t">>

\* the grid of scenario A: the header row ['Order', 'Description', 'Price',
\* 'Amount'] and the data row ['5', 'Widget', '$2.00', '$10.00']
C25_Grid ==
  << << <<"O", "r", "d", "e", "r">>,
        <<"D", "e", "s", "c", "r", "i", "p", "t", "i", "o", "n">>,
        <<"P", "r", "i", "c", "e">>,
        <<"A", "m", "o", "u", "n", "t">> >>,
     << <<"5">>,
        C25_Widget,
        <<"$", "2", ".", "0", "0">>,
        <<"$", "1", "0", ".", "0", "0">> >> >>

\* { pu_quant: 5, description: 'Widget', pu_price: 2.00, total: 10.00 }
C25_Item ==
  (PU_QUANT :> NumberValue(Whole(5)))
    @@ (C25_Description :> StringValue(C25_Widget))
    @@ (PU_PRICE :> NumberValue(Whole(2)))
    @@ (TOTAL :> NumberValue(Whole(10)))

\* C25: the table with the header row ['Order', 'Description', 'Price',
\* 'Amount'] and the one data row ['5', 'Widget', '$2.00', '$10.00'] yields
\* exactly one line item, { pu_quant: 5, description: 'Widget', pu_price:
\* 2.00, total: 10.00 }, whose numeric fields are numbers.
C25_ScenarioA ==
  TableReturned /\ tableData = C25_Grid =>
    poResult.data.items = <<C25_Item>>

\* the columns of the grid whose header is literally 'amount'
C26_AmountColumns ==
  {k \in 1..Len(tableData[1]) : ToLowerCase(tableData[1][k]) = AMOUNT}

\* C26 as stated: in a table with a header row, a column whose header is
\* literally 'amount' is mapped to pu_quant when it is the first column and
\* to total when it is the last column, before the synonym pass.
C26_AmountByPosition ==
  TableReturned /\ tableData # << >> /\ Len(tableData[1]) > 1 =>
    \A k \in C26_AmountColumns :
      /\ (k = 1 => processedData[1][k] = PU_QUANT)
      /\ (k = Len(tableData[1]) => processedData[1][k] = TOTAL)

\* C26, amended: in a table with a header row, a column whose header is
\* literally 'amount' is mapped to total whatever its position, the first
\* column as well as the last (a column whose data holds a part number
\* is named pr_codenum).
C26_AmountIsTotal ==
  TableReturned /\ tableData # << >> =>
    \A k \in C26_AmountColumns :
      processedData[1][k] = IF ColumnHasPartNumber(tableData, k) THEN PR_CODENUM
                            ELSE TOTAL

\* a table of several columns whose first column is headed 'amount' has
\* been processed
C26_Witness ==
  /\ TableReturned
  /\ tableData # << >>
  /\ Len(tableData[1]) > 1
  /\ 1 \in C26_AmountColumns
  /\ processedData[1][1] = TOTAL

\* pr_codenum, description, pu_quant, pu_price, total, unit, vendor_sku, notes
C27_CanonicalNames ==
  { PR_CODENUM, C25_Description, PU_QUANT, PU_PRICE, TOTAL,
    <<"u", "n", "i", "t">>,
    <<"v", "e", "n", "d", "o", "r", "_", "s", "k", "u">>,
    <<"n", "o", "t", "e", "s">> }

\* the columns of the processed table that hold the name
C27_Holders(name) ==
  {k \in 1..Len(processedData[1]) : processedData[1][k] = name}

\* C27: in the headers produced for a table, no canonical name is held by
\* more than one column; of two columns that would map to the same name,
\* such as 'qty' and 'quantity', the later one is renamed.
C27_CanonicalNamesUnique ==
  TableReturned /\ processedData # << >> =>
    \A name \in C27_CanonicalNames : Cardinality(C27_Holders(name)) <= 1

\* what an item adds to the sum when its total is a number or is missing
C28_TotalOf(item) ==
  IF TOTAL \in DOMAIN item /\ IsNumber(item[TOTAL]) THEN item[TOTAL].number ELSE 0

RECURSIVE C28_Sum(_)
C28_Sum(items) ==
  IF items = << >> THEN 0 ELSE C28_TotalOf(Head(items)) + C28_Sum(Tail(items))

\* the total of every item is a number, or undefined, null or missing
C28_NoTextTotal(items) ==
  \A n \in 1..Len(items) :
    TOTAL \in DOMAIN items[n] => ~IsString(items[n][TOTAL])

\* C28: for every purchase order analyzed with success, the total of the
\* record is a number: the numeric sum of the totals of its line items, an
\* absent or null total counting as 0 and a non-numeric total coerced to a
\* number, never anything but a number.
C28_TotalIsNumericSum ==
  TableReturned /\ poResult.success =>
    /\ IsNumber(poResult.data.total)
    /\ (C28_NoTextTotal(poResult.data.items) =>
          poResult.data.total = NumberValue(C28_Sum(poResult.data.items)))

\* generateExcelOutput has sanitized the items of the purchase order
TableExported == tablePc = "Exported"

\* what the sanitization is to make of the value of a field
C29_Expected(value) ==
  IF IsString(value)
  THEN IF Trim(value.text) = << >> THEN Null ELSE StringValue(Trim(value.text))
  ELSE value

\* C29: the sanitization for export preserves numeric values exactly, 0 and
\* negative numbers included (never null), turns every string field that is
\* empty or made of blanks into null, and keeps any other string trimmed.
C29_SanitizedValues ==
  TableExported =>
    \A n \in 1..Len(poResult.data.items) :
      \A key \in DOMAIN poResult.data.items[n] :
        /\ key \in DOMAIN sanitizedItems[n]
        /\ sanitizedItems[n][key] = C29_Expected(poResult.data.items[n][key])

\* C30: the sanitization never adds a key: a key that the source item does
\* not have is absent from the sanitized record (it does not appear with the
\* value null), so the key set of every exported record is the key set of
\* its source item.
C30_KeysPreserved ==
  TableExported =>
    /\ Len(sanitizedItems) = Len(poResult.data.items)
    /\ \A n \in 1..Len(sanitizedItems) :
         DOMAIN sanitizedItems[n] = DOMAIN poResult.data.items[n]

\* an item that has a description and a blank field but no total was
\* sanitized
C30_Witness ==
  /\ TableExported
  /\ \E n \in 1..Len(sanitizedItems) :
       /\ C25_Description \in DOMAIN poResult.data.items[n]
       /\ TOTAL \notin DOMAIN poResult.data.items[n]
       /\ TOTAL \notin DOMAIN sanitizedItems[n]
       /\ \E key \in DOMAIN sanitizedItems[n] : sanitizedItems[n][key] = Null

\* ------------------------------------------------------------------------
\* Properties of the result
\* ------------------------------------------------------------------------
\* what a call returns for the output out when its first attempt succeeds
C39_FirstAttemptReturn(out) ==
  IF documentType = "invoice"
  THEN IF out.documents > 0
       THEN [success |-> TRUE,
             data |-> [extractor |-> "extractInvoiceData", output |-> out]]
       ELSE [success |-> FALSE, error |-> NO_INVOICE_DATA]
  ELSE IF out.tables > 0
       THEN [success |-> TRUE,
             data |-> [extractor |-> "replaceImportHeaders", output |-> out]]
       ELSE [success |-> FALSE, error |-> NO_TABLE_DATA]

\* C39: the result of a call that succeeds does not depend on the failures
\* before it: for the same service output, a call that succeeds after 1, 2
\* or 3 failed attempts returns what a call that succeeds on its first
\* attempt returns, and none of the earlier errors appears in the result.
C39_ResultIgnoresFailures ==
  pc = "Success" =>
    /\ fails \in 0..MAX_RETRIES
    /\ ret = C39_FirstAttemptReturn(result)
    /\ (lastError # Undefined =>
          /\ ret # FailureReturn(lastError)
          /\ ("error" \in DOMAIN ret => ret.error # lastError.message))
    /\ ~("statusCode" \in DOMAIN ret)

\* a call has succeeded with data after three failed attempts
C39_Witness ==
  /\ pc = "Success"
  /\ fails = 3
  /\ lastError # Undefined
  /\ ret.success

\* C32: when the service result has no documents (the collection is absent
\* or empty) and has tables, the extraction falls back to the table pipeline
\* and warns that the structured path was unavailable, for either document
\* type: the call returns success with the data of the tables, one warning
\* is emitted beyond those of the retries, and the page is not reported as
\* failed because documents is empty.
C32_TableFallback ==
  pc = "Success" /\ result.documents = 0 /\ result.tables > 0 =>
    /\ ret.success
    /\ ret.data.extractor = "replaceImportHeaders"
    /\ warns = fails + 1

C35_InProgress(page) ==
  /\ runPc \in {"FirstPass", "SecondPass"}
  /\ pc \in {"Attempting", "Delay"}
  /\ CurrentPage = page

\* the calls of analyzeDocument made for a page so far
C35_Analyses(page) ==
  Len(history[page]) + (IF C35_InProgress(page) THEN 1 ELSE 0)

\* an upper bound of the service requests made for a page so far: the
\* requests of the call in progress, and MAX_RETRIES + 1 for each call
\* that has returned
C35_Requests(page) ==
  Len(history[page]) * (MAX_RETRIES + 1) + (IF C35_InProgress(page) THEN calls ELSE 0)

\* C35: retry is bounded across both tiers.  In one run no page is passed to
\* analyzeDocument more than twice, the queue of failed pages grows only in
\* the first pass (a page failing the second pass is never queued again), and
\* no call makes more than MAX_RETRIES + 1 service requests, so the requests
\* made for a page never exceed 2 * (MAX_RETRIES + 1) = 8.
C35_RetryBounded ==
  /\ [](/\ calls <= MAX_RETRIES + 1
        /\ \A page \in Pages :
             /\ C35_Analyses(page) <= 2
             /\ C35_Requests(page) <= 2 * (MAX_RETRIES + 1)
             /\ C35_Requests(page) <= 8)
  /\ [][failedPages' # failedPages =>
          /\ runPc = "FirstPass"
          /\ Len(failedPages') = Len(failedPages) + 1
          /\ Len(history[failedPages'[Len(failedPages')].page]) = 1]_vars

\* the eighth service request made for a page has been rejected: both of its
\* analyses gave up after four requests
C35_Witness ==
  /\ runPc = "SecondPass"
  /\ pc = "TerminalFailure"
  /\ Len(history[CurrentPage]) = 2
  /\ C35_Requests(CurrentPage) = 8
  /\ calls = 4
  /\ Len(failedPages) >= 2

\* the spreadsheets downloaded that hold the data of a page
C36_Exports(page) ==
  Cardinality({j \in 1..Len(downloads) :
                 \E k \in 1..Len(downloads[j].pages) : downloads[j].pages[k] = page})

\* the permanent-failure reports of a page
C36_Failures(page) ==
  Cardinality({j \in 1..Len(toasts) : toasts[j].page = page})

\* C36: at the end of a run that is not aborted the pages are partitioned.
\* Every page of every file is in exactly one downloaded spreadsheet, its own
\* or its file's aggregate, or has exactly one permanent-failure report,
\* never both and never neither; and the failures counted are the pages
\* reported.
C36_PagesPartitioned ==
  runPc = "Done" =>
    /\ \A page \in Pages :
         /\ C36_Exports(page) + C36_Failures(page) = 1
         /\ (C36_Exports(page) = 1 <=> C36_Failures(page) = 0)
    /\ finalErrorCount = Cardinality({page \in Pages : C36_Failures(page) = 1})
    /\ \A j \in 1..Len(downloads) : Len(downloads[j].pages) >= 1

\* a completed run of three pages: an export in the first pass, an export in
\* the second pass and a permanent failure
C36_Witness ==
  /\ runPc = "Done"
  /\ Cardinality(Pages) = 3
  /\ Len(downloads) = 2
  /\ Len(toasts) = 1
  /\ Len(failedPages) = 2

\* a first-pass call of analyzeDocument begins with this step
C38_FirstPassBegins == runPc' = "FirstPass" /\ runPc # "FirstPass"

\* the inter-page suspension begins with this step
C38_PacingBegins == runPc' = "Pacing" /\ runPc # "Pacing"

\* no page has been analysed yet
C38_NothingAnalysed == \A page \in Pages : history[page] = << >>

\* C38: the pacing order of the first pass.  The first analysis of a run
\* begins without any inter-page delay, before any page has been analysed;
\* every later first-pass analysis begins out of one suspension that lasted
\* the current inter-page delay and nothing more; and that suspension began
\* after the analysis of the previous page, retries included, had returned
\* and no request was in flight.
C38_PacingOrder ==
  /\ [][C38_FirstPassBegins =>
          IF processedPages' = 1
          THEN /\ runPc = "Splitting"
               /\ waited = 0
               /\ sleepLeft = 0
               /\ C38_NothingAnalysed
          ELSE /\ runPc = "Pacing"
               /\ processedPages' = processedPages
               /\ sleepLeft = 0
               /\ waited = interRequestDelay
               /\ ~C38_NothingAnalysed]_vars
  /\ [][C38_PacingBegins =>
          /\ processedPages >= 1
          /\ processedPages' = processedPages + 1
          /\ waited' = 0
          /\ sleepLeft' = interRequestDelay'
          /\ AnalysisReturned
          /\ inflight = 0
          /\ pc' = pc]_vars
  /\ [](runPc = "Pacing" =>
          /\ pc \notin {"Attempting", "Delay"}
          /\ waited + sleepLeft = interRequestDelay
          /\ processedPages >= 2)

\* the third page of a run is being analysed after its own suspension of the
\* inter-page delay, the page before it having been retried to the end
C38_Witness ==
  /\ runPc = "FirstPass"
  /\ pc = "Attempting"
  /\ processedPages = 3
  /\ waited = interRequestDelay
  /\ Len(failedPages) >= 1
  /\ saw429

\* the pages of a file of which some analysis succeeded
C31_AnalysedPages(file) ==
  {page \in Pages : page[1] = file /\ \E k \in 1..Len(history[page]) : history[page][k]}

\* the spreadsheets downloaded that hold data of a file
C31_ExportsOf(file) ==
  {j \in 1..Len(downloads) :
     \E k \in 1..Len(downloads[j].pages) : downloads[j].pages[k][1] = file}

\* C31: one consolidated export per source file.  In a completed run over
\* multi-page invoices every file with a successfully analysed page has
\* exactly one spreadsheet, which is the aggregate of the file and holds all
\* the successfully analysed pages of the file.
C31_OneConsolidatedExport ==
  runPc = "Done" /\ documentType = "invoice" /\ multiPage =>
    \A file \in 1..Len(files) :
      C31_AnalysedPages(file) # {} =>
        /\ Cardinality(C31_ExportsOf(file)) = 1
        /\ \A j \in C31_ExportsOf(file) :
             /\ downloads[j].kind = "aggregate"
             /\ downloads[j].documentType = "invoice"
             /\ {downloads[j].pages[k] : k \in 1..Len(downloads[j].pages)}
                  = C31_AnalysedPages(file)

\* the places a page holds in the aggregates: entry and position
C37_Contributions(page) ==
  {<<e, k>> \in (1..Len(invoiceAggregation.entries)) \X (1..MaxPages) :
     /\ k <= Len(invoiceAggregation.entries[e].pages)
     /\ invoiceAggregation.entries[e].pages[k] = page}

\* the second pass has finished: every queued page has been analysed again
C37_SecondPassOver ==
  \A j \in 1..Len(failedPages) : Len(history[failedPages[j].page]) = 2

\* C37: in a run that aggregates multi-page invoices every page whose
\* analysis succeeded, in the first pass or in the second, is held exactly
\* once by the aggregates when the run completes, in the aggregate of its
\* own file; and an aggregate is exported only after the first pass and the
\* second pass have finished.
C37_ContributesOnce ==
  invoiceAggregation.on =>
    /\ (runPc = "Done" =>
          \A page \in Pages :
            (\E k \in 1..Len(history[page]) : history[page][k]) =>
              /\ Cardinality(C37_Contributions(page)) = 1
              /\ \A c \in C37_Contributions(page) :
                   invoiceAggregation.entries[c[1]].name = page[1])
    /\ (runPc = "ExportAggregate" =>
          /\ \A page \in Pages : Len(history[page]) >= 1
          /\ C37_SecondPassOver)

\* ------------------------------------------------------------------------
\* Properties of the invoice fields
\* ------------------------------------------------------------------------
\* the kind of a field, from the newer discriminator or else the older one
C33_Kind(field) == IF "kind" \in DOMAIN field THEN field.kind ELSE field.type

\* the property that holds the value of a field in the newer shape
C33_NewerKey(kind) ==
  CASE kind = "string"   -> "valueString"
    [] kind = "number"   -> "valueNumber"
    [] kind = "date"     -> "valueDate"
    [] kind = "currency" -> "valueCurrency"
    [] kind = "array"    -> "valueArray"
    [] kind = "object"   -> "valueObject"

\* the property that holds the value of a field in the older shape
C33_OlderKey(kind) ==
  CASE kind = "array"  -> "values"
    [] kind = "object" -> "properties"
    [] OTHER           -> "value"

\* what a field holds: the newer shape first, then the older shape
C33_Held(field) ==
  IF C33_NewerKey(C33_Kind(field)) \in DOMAIN field
  THEN field[C33_NewerKey(C33_Kind(field))]
  ELSE Get(field, C33_OlderKey(C33_Kind(field)))

\* the value of a field whatever its shape; absent for a missing field
C33_Value(field) ==
  IF field = Undefined
  THEN Undefined
  ELSE IF C33_Kind(field) = "currency"
       THEN Get(C33_Held(field), "amount")
       ELSE C33_Held(field)

\* the item of an element of Items whatever its shape
C33_Item(props) ==
  [Description |-> C33_Value(Get(props, "Description")),
   Quantity    |-> IF "Quantity" \in DOMAIN props
                   THEN C33_Value(props.Quantity)
                   ELSE C33_Value(Get(props, "OrderQuantity")),
   Unit        |-> Undefined,
   UnitPrice   |-> Undefined,
   ProductCode |-> Undefined,
   Amount      |-> Undefined]

\* the items of a document whatever the shape of Items and of its elements
C33_Items(fields) ==
  IF "Items" \in DOMAIN fields
  THEN LET list == C33_Held(fields.Items)
       IN  [n \in 1..Len(list) |-> C33_Item(C33_Held(list[n]))]
  ELSE << >>

\* the amount of the field is held as an object, not as a text to be parsed
C33_AmountIsObject(field) == field = Undefined \/ ~IsString(C33_Held(field))

\* C33: the extraction is shape-independent and never raises.  The invoice
\* data returned for a document holds, for every field, the value the field
\* holds in the newer shape when that is present and in the older shape
\* otherwise, the same value whichever shape gave it; the items are those of
\* the elements of Items whether they are under valueArray or values and
\* under valueObject or properties; and a missing field is absent from the
\* data without an error.
C33_ShapeIndependent ==
  invoicePc = "Returned" =>
    /\ invoiceResult.success
    /\ invoiceResult.data.details.InvoiceId
         = C33_Value(Get(invoiceDocument.fields, "InvoiceId"))
    /\ (C33_AmountIsObject(Get(invoiceDocument.fields, "InvoiceTotal")) =>
          invoiceResult.data.details.InvoiceTotal
            = C33_Value(Get(invoiceDocument.fields, "InvoiceTotal")))
    /\ \A name \in DetailNames :
         name \notin DOMAIN invoiceDocument.fields =>
           invoiceResult.data.details[name] = Undefined
    /\ invoiceResult.data.items = C33_Items(invoiceDocument.fields)

====
